---- MODULE Spec2Model ----
(***************************************************************************)
(* Nexus SEO Intelligence: the scan pipeline (SEOScanner), the AI credit   *)
(* metering (AIService), and the Stripe billing handlers, as state         *)
(* machines over the Supabase tables they read and write.                  *)
(*                                                                         *)
(* Every Supabase / Stripe / Gemini call is one atomic step that either    *)
(* takes effect and returns, or raises and leaves the tables unchanged.    *)
(***************************************************************************)
EXTENDS Integers, Sequences, FiniteSets, TLC

VARIABLES
    page,                 \* the analysis dicts handed to _calculate_scores
    scores,               \* the dict _calculate_scores returned, or NoScores
    issues,               \* the dict _identify_issues returned and its issues_detail
    smart_scan,           \* one SmartSEOScanner.scan_website call: position and locals
    profiles,             \* table 'profiles': the row of the one user, or NoRow
    scans,                \* table 'scans': sequence of rows, the id is the index
    scan_calls,           \* one record per scan_url call: position and locals
    credit_transactions,  \* table 'credit_transactions': sequence of rows
    ai_usage,             \* table 'ai_usage': the rows, in no order
    ai_calls,             \* one record per AIService / _grant_credits call
    subscriptions,        \* table 'subscriptions': sequence of rows
    stripe_events,        \* table 'stripe_events': event id -> row, or NoRow
    payments,             \* table 'payments': the event ids recorded
    delivery,             \* the webhook delivery being handled: position and locals
    delivered,            \* number of webhook deliveries received so far
    session,              \* st.session_state of one browser session, and what it shows
    access,               \* one can_access_page or feature_gate call and its result
    sqlite_db             \* nexus_seo.db: the 'users' row and the 'subscriptions' rows

score_vars == <<page, scores, issues, smart_scan>>

scan_vars == <<scans, scan_calls>>

credit_vars == <<credit_transactions, ai_usage, ai_calls>>

billing_vars == <<subscriptions, stripe_events, payments, delivery, delivered>>

\* State kept outside Supabase.
local_vars == <<session, access, sqlite_db>>

vars == <<score_vars, profiles, scan_vars, credit_vars, billing_vars, local_vars>>

(***************************************************************************)
(* Python values.                                                          *)
(***************************************************************************)

\* A str-or-None value, kept by what the code reads of it: whether it is
\* None, and its length.
NoneStr == [none |-> TRUE, len |-> 0]

Str(n) == [none |-> FALSE, len |-> n]

\* Python truthiness of a str-or-None: None and '' are falsy.
Truthy(s) == ~s.none /\ s.len > 0

Max(a, b) == IF a >= b THEN a ELSE b

Min(a, b) == IF a <= b THEN a ELSE b

(***************************************************************************)
(* IEEE 754 binary64 arithmetic on the non-negative values below 128 the   *)
(* overall score goes through.  A value is kept exactly, as the natural    *)
(* number value * 2^56 in three limbs of 21 bits: every binary64 value in  *)
(* [2^-4, 2^7) is a multiple of 2^-56.                                     *)
(***************************************************************************)
LimbBits == 21

FracBits == 56

MantissaBits == 53

LimbBase == 2 ^ LimbBits

BigZero == [hi |-> 0, mid |-> 0, lo |-> 0]

\* The limbs of hi * 2^42 + mid * 2^21 + lo with carries propagated.
BigCarry(hi, mid, lo) ==
    LET m == mid + (lo \div LimbBase)
    IN  [hi  |-> hi + (m \div LimbBase),
         mid |-> m % LimbBase,
         lo  |-> lo % LimbBase]

BigAdd(x, y) == BigCarry(x.hi + y.hi, x.mid + y.mid, x.lo + y.lo)

\* x * k for a small natural k (k <= 127).
BigMulSmall(x, k) == BigCarry(x.hi * k, x.mid * k, x.lo * k)

\* Long division of x by a small natural d: quotient limbs and remainder.
BigDivSmall(x, d) ==
    LET qh == x.hi \div d
        rh == x.hi % d
        cm == rh * LimbBase + x.mid
        qm == cm \div d
        rm == cm % d
        cl == rm * LimbBase + x.lo
    IN  [q |-> [hi |-> qh, mid |-> qm, lo |-> cl \div d], r |-> cl % d]

\* Number of significant bits of a limb.
BitLen(n) == IF n = 0 THEN 0 ELSE CHOOSE k \in 1..LimbBits : 2 ^ (k - 1) <= n /\ n < 2 ^ k

BigBitLen(x) ==
    IF x.hi > 0 THEN 2 * LimbBits + BitLen(x.hi)
    ELSE IF x.mid > 0 THEN LimbBits + BitLen(x.mid)
    ELSE BitLen(x.lo)

\* Round the exact value x + r/den (0 <= r < den) to the nearest binary64,
\* ties to even: keep the 53 leading bits.
RoundNearestEven(x, r, den) ==
    LET d == BigBitLen(x) - MantissaBits
    IN  IF d <= 0
        THEN IF 2 * r > den \/ (2 * r = den /\ x.lo % 2 = 1)
             THEN BigCarry(x.hi, x.mid, x.lo + 1)
             ELSE x
        ELSE LET unit == 2 ^ d
                 low  == x.lo % unit
                 half == unit \div 2
                 odd  == (x.lo \div unit) % 2 = 1
                 up   == low > half \/ (low = half /\ (r > 0 \/ odd))
             IN  BigCarry(x.hi, x.mid, x.lo - low + (IF up THEN unit ELSE 0))

\* The binary64 a decimal literal num/den (num < 128) denotes.
FloatLiteral(num, den) ==
    LET n0 == [hi |-> num * 2 ^ (FracBits - 2 * LimbBits), mid |-> 0, lo |-> 0]
        qr == BigDivSmall(n0, den)
    IN  RoundNearestEven(qr.q, qr.r, den)

\* int * float: the int converts exactly, the product is rounded once.
FloatMulInt(k, x) == RoundNearestEven(BigMulSmall(x, k), 0, 1)

\* float + float, rounded once.
FloatAdd(x, y) == RoundNearestEven(BigAdd(x, y), 0, 1)

\* int(float): truncation toward zero.
FloatToInt(x) == x.hi \div 2 ^ (FracBits - 2 * LimbBits)

(***************************************************************************)
(* SEOScanner._calculate_scores (src/seo_scanner.py).                      *)
(***************************************************************************)
NoScores == [computed |-> FALSE]

\* A wrong comparison: a load time of exactly 3000 ms is already deducted.
technical_score_inclusive(technical) ==
    LET p1 == 100 - (IF ~technical.has_ssl THEN 30 ELSE 0)
        p2 == p1 - (IF technical.http_status # 200 THEN 25 ELSE 0)
        p3 == p2 - (IF technical.load_time_ms >= 3000 THEN 15 ELSE 0)
        p4 == p3 - (IF ~technical.is_mobile_friendly THEN 10 ELSE 0)
    IN  Max(0, p4)

\* Technical score: 100 minus fixed deductions.
technical_score(technical) ==
    LET p1 == 100 - (IF ~technical.has_ssl THEN 30 ELSE 0)
        p2 == p1 - (IF technical.http_status # 200 THEN 25 ELSE 0)
        p3 == p2 - (IF technical.load_time_ms > 3000 THEN 15 ELSE 0)
        p4 == p3 - (IF ~technical.is_mobile_friendly THEN 10 ELSE 0)
    IN  Max(0, p4)

\* Content score; h1_tags is kept by its length.
content_score(metadata, content) ==
    LET p1 == 100 - (IF ~Truthy(metadata.title) THEN 25 ELSE 0)
        p2 == p1 - (IF ~Truthy(metadata.meta_description) THEN 20 ELSE 0)
        p3 == p2 - (IF metadata.h1_tags = 0 THEN 20
                    ELSE IF metadata.h1_tags > 1 THEN 10 ELSE 0)
        p4 == p3 - (IF content.word_count < 300 THEN 25 ELSE 0)
    IN  Max(0, p4)

performance_score(technical) ==
    LET load_time == technical.load_time_ms
        p1 == 100 - (IF load_time > 5000 THEN 50
                     ELSE IF load_time > 3000 THEN 30
                     ELSE IF load_time > 1000 THEN 15 ELSE 0)
        page_size == technical.page_size_kb
        p2 == p1 - (IF page_size > 3000 THEN 30
                    ELSE IF page_size > 2000 THEN 20
                    ELSE IF page_size > 1000 THEN 10 ELSE 0)
    IN  Max(0, p2)

\* A wrong deduction: 5 points per image without the cap of 40.
accessibility_score_uncapped(metadata, images) ==
    LET p1 == 100 - images.images_without_alt * 5
        p2 == p1 - (IF metadata.h1_tags = 0 THEN 20 ELSE 0)
    IN  Max(0, p2)

accessibility_score(metadata, images) ==
    LET p1 == 100 - (IF images.images_without_alt > 0
                     THEN Min(40, images.images_without_alt * 5) ELSE 0)
        p2 == p1 - (IF metadata.h1_tags = 0 THEN 20 ELSE 0)
    IN  Max(0, p2)

\* A wrong weight: accessibility counted at 0.20, the four weights sum to 1.10.
overall_score_overweight(t, c, p, a) ==
    FloatToInt(
        FloatAdd(
            FloatAdd(
                FloatAdd(FloatMulInt(t, FloatLiteral(35, 100)),
                         FloatMulInt(c, FloatLiteral(35, 100))),
                FloatMulInt(p, FloatLiteral(20, 100))),
            FloatMulInt(a, FloatLiteral(20, 100))))

\* int(t * 0.35 + c * 0.35 + p * 0.20 + a * 0.10), in binary64, left to right.
overall_score(t, c, p, a) ==
    FloatToInt(
        FloatAdd(
            FloatAdd(
                FloatAdd(FloatMulInt(t, FloatLiteral(35, 100)),
                         FloatMulInt(c, FloatLiteral(35, 100))),
                FloatMulInt(p, FloatLiteral(20, 100))),
            FloatMulInt(a, FloatLiteral(10, 100))))

calculate_scores(metadata, technical, content, images) ==
    LET t == technical_score(technical)
        c == content_score(metadata, content)
        p == performance_score(technical)
        a == accessibility_score(metadata, images)
    IN  [computed            |-> TRUE,
         overall_score       |-> overall_score(t, c, p, a),
         technical_score     |-> t,
         content_score       |-> c,
         performance_score   |-> p,
         accessibility_score |-> a]

(***************************************************************************)
(* The pages the scoring is checked on: every field takes the values on    *)
(* both sides of each threshold the code compares it with.                 *)
(***************************************************************************)
MaxImagesWithoutAlt == 9

MaxH1Tags == 2

StrValues == {NoneStr, Str(0), Str(10)}

LoadTimes == {1000, 1001, 3000, 3001, 5000, 5001}

PageSizes == {1000, 1001, 2000, 2001, 3000, 3001}

Pages ==
    [metadata  : [title : StrValues, meta_description : StrValues,
                  h1_tags : 0..MaxH1Tags],
     technical : [http_status : {200, 404}, has_ssl : BOOLEAN,
                  page_size_kb : PageSizes, load_time_ms : LoadTimes,
                  is_mobile_friendly : BOOLEAN],
     content   : [word_count : {299, 300}],
     images    : [images_without_alt : 0..MaxImagesWithoutAlt]]

(***************************************************************************)
(* SEOScanner._identify_issues and _format_issues_detail.  A message is    *)
(* kept without the number its f-string puts in.                           *)
(***************************************************************************)
NoIssues == [identified |-> FALSE]

\* list.append when the condition holds
AppendIf(list, cond, message) == IF cond THEN Append(list, message) ELSE list

\* A wrong comparison: a title of exactly 60 characters is already too long.
title_too_long_inclusive(title) == Truthy(title) /\ title.len >= 60

\* metadata.get('title') and len(metadata['title']) > 60
title_too_long(title) == Truthy(title) /\ title.len > 60

identify_issues(metadata, technical, content, images) ==
    LET c1 == AppendIf(<< >>, ~Truthy(metadata.title), "Missing page title")
        c2 == AppendIf(c1, ~technical.has_ssl, "No HTTPS encryption")
        critical == AppendIf(c2, technical.http_status # 200, "HTTP status")
        h1 == AppendIf(<< >>, ~Truthy(metadata.meta_description),
                       "Missing meta description")
        h2 == IF metadata.h1_tags = 0 THEN Append(h1, "No H1 heading found")
              ELSE IF metadata.h1_tags > 1 THEN Append(h1, "Multiple H1 tags")
              ELSE h1
        high == AppendIf(h2, content.word_count < 300, "Thin content (< 300 words)")
        m1 == AppendIf(<< >>, title_too_long(metadata.title),
                       "Title tag too long (> 60 chars)")
        m2 == AppendIf(m1, /\ Truthy(metadata.meta_description)
                           /\ metadata.meta_description.len > 160,
                       "Meta description too long (> 160 chars)")
        m3 == AppendIf(m2, technical.load_time_ms > 3000, "Slow page load")
        medium == AppendIf(m3, technical.page_size_kb > 2000, "Large page size")
        l1 == AppendIf(<< >>, images.images_without_alt > 0,
                       "images missing alt text")
        low == AppendIf(l1, ~technical.is_mobile_friendly, "No viewport meta tag")
    IN  [critical_issues |-> Len(critical), high_issues |-> Len(high),
         medium_issues |-> Len(medium), low_issues |-> Len(low),
         _critical_list |-> critical, _high_list |-> high,
         _medium_list |-> medium, _low_list |-> low]

\* _format_issues_detail
format_issues_detail(issues_dict) ==
    [critical |-> issues_dict._critical_list, high |-> issues_dict._high_list,
     medium |-> issues_dict._medium_list, low |-> issues_dict._low_list]

\* The pages the issues are identified on: every field on both sides of
\* each threshold _identify_issues compares it with.
IssuePages ==
    [metadata  : [title : {NoneStr, Str(0), Str(60), Str(61)},
                  meta_description : {NoneStr, Str(0), Str(160), Str(161)},
                  h1_tags : 0..MaxH1Tags],
     technical : [http_status : {200, 404}, has_ssl : BOOLEAN,
                  page_size_kb : {2000, 2001}, load_time_ms : {3000, 3001},
                  is_mobile_friendly : BOOLEAN],
     content   : [word_count : {299, 300}],
     images    : [images_without_alt : {0, 1}]]

\* scan_url: issues = self._identify_issues(...), then
\* 'issues_detail': self._format_issues_detail(issues)
IdentifyIssues ==
    /\ ~issues.identified
    /\ LET issues_dict == identify_issues(page.metadata, page.technical,
                                          page.content, page.images)
       IN  issues' = [identified |-> TRUE, issues |-> issues_dict,
                      issues_detail |-> format_issues_detail(issues_dict)]
    /\ UNCHANGED <<page, scores, smart_scan, profiles, scan_vars, credit_vars,
                   billing_vars, local_vars>>

IssueNext == IdentifyIssues

(***************************************************************************)
(* SEOScanner.scan_url (src/seo_scanner.py): one record per call, one      *)
(* action per external call the method makes.                              *)
(***************************************************************************)
NumScanCalls == 2

ScanCallIds == 1..NumScanCalls

\* monthly_scan_limit of the demo tier.
DemoScanLimit == 2

NoRow == [exists |-> FALSE]

\* What an external call does: it returns, or it raises.
Outcomes == {"ok", "raises"}

\* Two pages a fetch can return: a clean one and a thin one without a title.
ScannedPages ==
    {[metadata  |-> [title |-> Str(10), meta_description |-> Str(10), h1_tags |-> 1],
      technical |-> [http_status |-> 200, has_ssl |-> TRUE, page_size_kb |-> 1000,
                     load_time_ms |-> 1000, is_mobile_friendly |-> TRUE],
      content   |-> [word_count |-> 300],
      images    |-> [images_without_alt |-> 0]],
     [metadata  |-> [title |-> NoneStr, meta_description |-> Str(0), h1_tags |-> 2],
      technical |-> [http_status |-> 404, has_ssl |-> TRUE, page_size_kb |-> 3001,
                     load_time_ms |-> 5001, is_mobile_friendly |-> FALSE],
      content   |-> [word_count |-> 299],
      images    |-> [images_without_alt |-> 7]]}

IdleCall ==
    [pc |-> "idle", result |-> "running", scan_id |-> 0, cause |-> "",
     exc |-> "", fetches |-> 0, inserts |-> 0, counter_writes |-> 0,
     lookup |-> "", used |-> 0, limit |-> 0, current |-> 0, html |-> NoScores]

\* The call is over: it returned None, returned its scan id, or raised.
Returned(c) == scan_calls[c].result # "running"

SetCall(c, rec) == scan_calls' = [scan_calls EXCEPT ![c] = rec]

\* return None
ReturnNone(call) == [call EXCEPT !.pc = "done", !.result = "None"]

\* an exception leaves scan_url
Propagate(call) == [call EXCEPT !.pc = "done", !.result = "raised"]

\* control enters the except clause of scan_url with str(e) = msg
Except(call, why, msg) ==
    [call EXCEPT !.pc = "except", !.exc = msg,
                 !.cause = IF call.cause = "" THEN why ELSE call.cause]

\* _check_scan_limits: the comparison it returns
under_limit_inclusive(used, limit) == used <= limit

under_limit(used, limit) == used < limit

\* _increment_scan_counter logs and swallows whatever it catches
increment_error_reraised(call) == Except(call, "increment", "increment failed")

increment_error(call) == [call EXCEPT !.pc = "return_id"]

\* _normalize_url; an invalid URL returns None before any table is touched
NormalizeUrl(c) ==
    /\ scan_calls[c].pc = "idle"
    /\ \E valid \in BOOLEAN :
          SetCall(c, IF valid THEN [scan_calls[c] EXCEPT !.pc = "check_limits"]
                     ELSE ReturnNone(scan_calls[c]))
    /\ UNCHANGED <<score_vars, local_vars, credit_vars, billing_vars, profiles, scans>>

\* _check_scan_limits: select on 'profiles'; any failure counts as over limit
CheckScanLimits(c) ==
    /\ scan_calls[c].pc = "check_limits"
    /\ \E out \in Outcomes :
          LET call == IF out = "raises"
                      THEN [scan_calls[c] EXCEPT !.lookup = "raised"]
                      ELSE IF ~profiles.exists
                      THEN [scan_calls[c] EXCEPT !.lookup = "missing"]
                      ELSE [scan_calls[c] EXCEPT !.lookup = "row",
                               !.used = profiles.monthly_scans_used,
                               !.limit = profiles.monthly_scan_limit]
          IN  SetCall(c, IF call.lookup = "row" /\ under_limit(call.used, call.limit)
                         THEN [call EXCEPT !.pc = "create"]
                         ELSE ReturnNone(call))
    /\ UNCHANGED <<score_vars, local_vars, credit_vars, billing_vars, profiles, scans>>

\* _create_scan_record: insert into 'scans'; it logs and re-raises, and the
\* call site is outside the try block
CreateScanRecord(c) ==
    /\ scan_calls[c].pc = "create"
    /\ \E out \in Outcomes :
          IF out = "ok"
          THEN /\ scans' = Append(scans, [status |-> "pending", error_message |-> "",
                                          scores |-> NoScores, call |-> c])
               /\ SetCall(c, [scan_calls[c] EXCEPT !.pc = "set_processing",
                                                   !.scan_id = Len(scans) + 1,
                                                   !.inserts = @ + 1])
          ELSE /\ SetCall(c, Propagate(scan_calls[c]))
               /\ UNCHANGED scans
    /\ UNCHANGED <<score_vars, local_vars, credit_vars, billing_vars, profiles>>

\* _update_scan_status(scan_id, 'processing')
UpdateScanStatus(c) ==
    /\ scan_calls[c].pc = "set_processing"
    /\ \E out \in Outcomes :
          IF out = "ok"
          THEN /\ scans' = [scans EXCEPT ![scan_calls[c].scan_id].status = "processing"]
               /\ SetCall(c, [scan_calls[c] EXCEPT !.pc = "fetch"])
          ELSE /\ SetCall(c, Except(scan_calls[c], "status_update", "status update failed"))
               /\ UNCHANGED scans
    /\ UNCHANGED <<score_vars, local_vars, credit_vars, billing_vars, profiles>>

\* _fetch_page: content, or (None, status, load_time) on a RequestException or
\* an oversized page, or an exception of another class that it lets through
FetchPage(c) ==
    /\ scan_calls[c].pc = "fetch"
    /\ \/ \E pg \in ScannedPages :
             SetCall(c, [scan_calls[c] EXCEPT !.pc = "analyze", !.html = pg,
                                              !.fetches = @ + 1])
       \/ SetCall(c, [scan_calls[c] EXCEPT !.pc = "fetch_failed", !.fetches = @ + 1,
                                           !.cause = "no_content"])
       \/ SetCall(c, [Except(scan_calls[c], "fetch_raised", "fetch raised")
                         EXCEPT !.fetches = @ + 1])
    /\ UNCHANGED <<score_vars, local_vars, credit_vars, billing_vars, profiles, scans>>

\* if not html_content: _mark_scan_failed(...); return None
MarkFetchFailed(c) ==
    /\ scan_calls[c].pc = "fetch_failed"
    /\ \E out \in Outcomes :
          IF out = "ok"
          THEN /\ scans' = [scans EXCEPT ![scan_calls[c].scan_id] =
                               [@ EXCEPT !.status = "failed",
                                         !.error_message = "Failed to fetch page"]]
               /\ SetCall(c, ReturnNone(scan_calls[c]))
          ELSE /\ SetCall(c, Except(scan_calls[c], "no_content", "mark failed raised"))
               /\ UNCHANGED scans
    /\ UNCHANGED <<score_vars, local_vars, credit_vars, billing_vars, profiles>>

\* BeautifulSoup and the analysis modules, up to the scan_data dict
Analyze(c) ==
    /\ scan_calls[c].pc = "analyze"
    /\ \/ SetCall(c, [scan_calls[c] EXCEPT !.pc = "update_result"])
       \/ SetCall(c, Except(scan_calls[c], "analysis", "analysis raised"))
    /\ UNCHANGED <<score_vars, local_vars, credit_vars, billing_vars, profiles, scans>>

\* supabase.table('scans').update(scan_data): scores and status 'completed'
UpdateScanRecord(c) ==
    /\ scan_calls[c].pc = "update_result"
    /\ \E out \in Outcomes :
          IF out = "ok"
          THEN LET pg == scan_calls[c].html
               IN  /\ scans' = [scans EXCEPT ![scan_calls[c].scan_id] =
                                   [@ EXCEPT !.status = "completed",
                                             !.scores = calculate_scores(pg.metadata,
                                                 pg.technical, pg.content, pg.images)]]
                   /\ SetCall(c, [scan_calls[c] EXCEPT !.pc = "increment_read"])
          ELSE /\ SetCall(c, Except(scan_calls[c], "result_update", "result update failed"))
               /\ UNCHANGED scans
    /\ UNCHANGED <<score_vars, local_vars, credit_vars, billing_vars, profiles>>

\* _increment_scan_counter: select monthly_scans_used
IncrementRead(c) ==
    /\ scan_calls[c].pc = "increment_read"
    /\ \E out \in Outcomes :
          SetCall(c, IF out = "ok" /\ profiles.exists
                     THEN [scan_calls[c] EXCEPT !.pc = "increment_write",
                                                !.current = profiles.monthly_scans_used]
                     ELSE increment_error(scan_calls[c]))
    /\ UNCHANGED <<score_vars, local_vars, credit_vars, billing_vars, profiles, scans>>

\* _increment_scan_counter: update monthly_scans_used = current + 1
IncrementWrite(c) ==
    /\ scan_calls[c].pc = "increment_write"
    /\ \E out \in Outcomes :
          IF out = "ok"
          THEN /\ profiles' = [profiles EXCEPT !.monthly_scans_used =
                                                   scan_calls[c].current + 1]
               /\ SetCall(c, [scan_calls[c] EXCEPT !.pc = "return_id",
                                                   !.counter_writes = @ + 1])
          ELSE /\ SetCall(c, increment_error(scan_calls[c]))
               /\ UNCHANGED profiles
    /\ UNCHANGED <<score_vars, local_vars, credit_vars, billing_vars, scans>>

\* return scan_id
ReturnScanId(c) ==
    /\ scan_calls[c].pc = "return_id"
    /\ SetCall(c, [scan_calls[c] EXCEPT !.pc = "done", !.result = "scan_id"])
    /\ UNCHANGED <<score_vars, local_vars, credit_vars, billing_vars, profiles, scans>>

\* except Exception as e: _mark_scan_failed(scan_id, str(e)); return None
MarkScanFailed(c) ==
    /\ scan_calls[c].pc = "except"
    /\ \E out \in Outcomes :
          IF out = "ok"
          THEN /\ scans' = [scans EXCEPT ![scan_calls[c].scan_id] =
                               [@ EXCEPT !.status = "failed",
                                         !.error_message = scan_calls[c].exc]]
               /\ SetCall(c, ReturnNone(scan_calls[c]))
          ELSE /\ SetCall(c, Propagate(scan_calls[c]))
               /\ UNCHANGED scans
    /\ UNCHANGED <<score_vars, local_vars, credit_vars, billing_vars, profiles>>

(***************************************************************************)
(* SmartSEOScanner.scan_website (src/services/seo_scanner.py).  A dict is  *)
(* a record; the scraped data is kept by its status code, the analyses by  *)
(* the data they were computed from.                                       *)
(***************************************************************************)
NoSmartScan == [pc |-> "idle"]

\* What requests.get and the parsing do inside _scrape_website.
ScrapeOutcomes == {"ok", "Timeout", "RequestException", "Exception"}

\* HTTP status of a fetched page; a status other than 200 only prints a
\* warning.
StatusCodes == {200, 404}

NoData == [none |-> TRUE]

EmptyDict == [empty |-> TRUE]

PendingResult == [pending |-> TRUE]

\* The url argument: without a scheme, with http and with https.
UrlValues == {"example.com", "http://example.com", "https://example.com"}

\* _scrape_website: if not url.startswith('http'): url = 'https://' + url
normalize(url) == IF url = "example.com" THEN "https://example.com" ELSE url

\* url.startswith('https')
https_enabled(url) == url = "https://example.com"

SmartScanStart(url, include_ai, ai_model) ==
    [pc |-> "scrape", url |-> url, include_ai |-> include_ai, ai_model |-> ai_model,
     fetch |-> "", scan_data |-> NoData, ran |-> {},
     ai_insights |-> EmptyDict, result |-> PendingResult]

\* A wrong except chain: an exception that is neither a Timeout nor a
\* RequestException leaves _scrape_website.
scrape_caught_requests_only(outcome) == outcome \in {"Timeout", "RequestException"}

\* _scrape_website: except requests.Timeout, except RequestException,
\* except Exception, each returning None
scrape_caught(outcome) == outcome \in {"Timeout", "RequestException", "Exception"}

\* _calculate_overall_score: the technical and content scores it combines
\* are those of the two analyses
calculate_overall_score(technical, content) ==
    [technical |-> technical.of, content |-> content.of]

\* result = {...}
combine(call, ai_insights) ==
    [url |-> call.url, basic_data |-> call.scan_data,
     technical_analysis |-> [of |-> call.scan_data.status_code],
     content_analysis |-> [of |-> call.scan_data.status_code],
     ai_insights |-> ai_insights,
     overall_score |-> calculate_overall_score([of |-> call.scan_data.status_code],
                                               [of |-> call.scan_data.status_code])]

\* An _ai_* method: the model's JSON, or {} on any exception
ai_answer(out) == IF out = "ok" THEN [empty |-> FALSE] ELSE EmptyDict

SmartUnchanged ==
    UNCHANGED <<page, scores, issues, profiles, scan_vars, credit_vars,
                billing_vars, local_vars>>

\* scan_website: _scrape_website; on None return the error dict; otherwise
\* _analyze_technical and _analyze_content, and without AI the result
ScrapeWebsite ==
    /\ smart_scan.pc = "scrape"
    /\ \E outcome \in ScrapeOutcomes, status_code \in StatusCodes :
          LET call == [smart_scan EXCEPT !.fetch = outcome]
          IN  smart_scan' =
                 IF outcome = "ok"
                 THEN LET analysed == [call EXCEPT
                                          !.scan_data =
                                              [none |-> FALSE,
                                               url |-> normalize(call.url),
                                               https |-> https_enabled(
                                                            normalize(call.url)),
                                               status_code |-> status_code],
                                          !.ran = {"technical", "content"}]
                      IN  IF analysed.include_ai /\ analysed.ai_model
                          THEN [analysed EXCEPT !.pc = "technical_ai"]
                          ELSE [analysed EXCEPT !.pc = "done",
                                   !.result = combine(analysed, EmptyDict)]
                 ELSE IF scrape_caught(outcome)
                 THEN [call EXCEPT !.pc = "done",
                          !.result = [error |-> "Failed to scrape website"]]
                 ELSE [call EXCEPT !.pc = "done", !.result = [raised |-> outcome]]
    /\ SmartUnchanged

\* _ai_technical_analysis
AiTechnical ==
    /\ smart_scan.pc = "technical_ai"
    /\ \E out \in Outcomes :
          smart_scan' = [smart_scan EXCEPT !.pc = "content_ai",
                            !.ran = @ \cup {"technical_ai"},
                            !.ai_insights = [empty |-> FALSE,
                                             technical_ai |-> ai_answer(out)]]
    /\ SmartUnchanged

\* _ai_content_analysis
AiContent ==
    /\ smart_scan.pc = "content_ai"
    /\ \E out \in Outcomes :
          smart_scan' = [smart_scan EXCEPT !.pc = "competitive_ai",
                            !.ran = @ \cup {"content_ai"},
                            !.ai_insights = [empty |-> FALSE,
                                             technical_ai |-> @.technical_ai,
                                             content_ai |-> ai_answer(out)]]
    /\ SmartUnchanged

\* _ai_competitive_analysis
AiCompetitive ==
    /\ smart_scan.pc = "competitive_ai"
    /\ \E out \in Outcomes :
          smart_scan' = [smart_scan EXCEPT !.pc = "action_plan",
                            !.ran = @ \cup {"competitive_ai"},
                            !.ai_insights = [empty |-> FALSE,
                                             technical_ai |-> @.technical_ai,
                                             content_ai |-> @.content_ai,
                                             competitive_ai |-> ai_answer(out)]]
    /\ SmartUnchanged

\* _ai_generate_action_plan, then the result
AiActionPlan ==
    /\ smart_scan.pc = "action_plan"
    /\ \E out \in Outcomes :
          LET ai_insights == [empty |-> FALSE,
                              technical_ai |-> smart_scan.ai_insights.technical_ai,
                              content_ai |-> smart_scan.ai_insights.content_ai,
                              competitive_ai |-> smart_scan.ai_insights.competitive_ai,
                              action_plan |-> ai_answer(out)]
          IN  smart_scan' = [smart_scan EXCEPT !.pc = "done",
                                !.ran = @ \cup {"action_plan"},
                                !.ai_insights = ai_insights,
                                !.result = combine(smart_scan, ai_insights)]
    /\ SmartUnchanged

SmartNext ==
    \/ ScrapeWebsite
    \/ AiTechnical
    \/ AiContent
    \/ AiCompetitive
    \/ AiActionPlan

(***************************************************************************)
(* AIService credit metering (src/ai_service.py) and                       *)
(* StripeService._grant_credits (src/stripe_local.py).  A call is one of   *)
(* generate_seo_audit, generate_keyword_research, generate_seo_roadmap,    *)
(* deduct_credits called on its own, or _grant_credits.                    *)
(***************************************************************************)
NumCreditCalls == 2

CreditCallIds == 1..NumCreditCalls

CREDIT_COSTS ==
    [seo_audit |-> 100, keyword_research |-> 50, content_gap |-> 75,
     roadmap |-> 120, quick_suggestions |-> 25, competitor_analysis |-> 150]

PRICING_CONFIG ==
    [pro    |-> [monthly |-> [amount |-> 4900, credits |-> 5000, scan_limit |-> 50],
                 yearly  |-> [amount |-> 47000, credits |-> 60000, scan_limit |-> 600]],
     agency |-> [monthly |-> [amount |-> 14900, credits |-> 20000, scan_limit |-> 200],
                 yearly  |-> [amount |-> 143000, credits |-> 240000, scan_limit |-> 2400]],
     elite  |-> [monthly |-> [amount |-> 39900, credits |-> 100000,
                              scan_limit |-> 999999]]]

\* The operations that have a generate_* method.
AIOperations == {"seo_audit", "keyword_research", "roadmap"}

\* Amounts deduct_credits is called with on its own.
DeductAmounts == {CREDIT_COSTS.content_gap}

GrantAmounts == {PRICING_CONFIG.pro.monthly.credits}

InitialBalances == {0, 100, 220}

IdleAICall ==
    [pc |-> "idle", kind |-> "", amount |-> 0, result |-> "running",
     start_balance |-> 0, current_balance |-> 0, new_balance |-> 0,
     deducted |-> "", updates |-> 0, inserts |-> 0, generated |-> FALSE]

SetAICall(c, rec) == ai_calls' = [ai_calls EXCEPT ![c] = rec]

\* deduct_credits: the test that refuses the deduction
insufficient_negative_only(current_balance, amount) == current_balance < 0

insufficient(current_balance, amount) == current_balance < amount

\* A wrong check: every balance is enough.
has_credits_always(balance, required) == TRUE

\* check_credits: balance >= required
has_credits(balance, required) == balance >= required

\* deduct_credits returns ret: on its own the call is over; inside a
\* generate_* method the return value is at most logged and the method goes on
AfterDeduct(call, ret) ==
    IF call.kind = "deduct"
    THEN [call EXCEPT !.pc = "done", !.result = ret, !.deducted = ret]
    ELSE [call EXCEPT !.pc = "log_success", !.deducted = ret]

\* generate_*: check_credits; any failure of the select counts as no credits
CheckCredits(c) ==
    /\ ai_calls[c].pc = "idle"
    /\ \E op \in AIOperations, out \in Outcomes :
          LET ok   == /\ out = "ok"
                      /\ profiles.exists
                      /\ has_credits(profiles.credits_balance, CREDIT_COSTS[op])
              call == [ai_calls[c] EXCEPT !.kind = op, !.amount = CREDIT_COSTS[op],
                          !.start_balance = IF profiles.exists
                                            THEN profiles.credits_balance ELSE 0]
          IN  SetAICall(c, IF ok THEN [call EXCEPT !.pc = "generate"]
                           ELSE [call EXCEPT !.pc = "done", !.result = "None"])
    /\ UNCHANGED <<score_vars, local_vars, profiles, scan_vars, billing_vars,
                   credit_transactions, ai_usage>>

\* prompt, model.generate_content, response parsing
GenerateContent(c) ==
    /\ ai_calls[c].pc = "generate"
    /\ \E out \in Outcomes :
          SetAICall(c, [ai_calls[c] EXCEPT !.generated = TRUE,
                           !.pc = IF out = "ok" THEN "deduct_read" ELSE "log_failure"])
    /\ UNCHANGED <<score_vars, local_vars, profiles, scan_vars, billing_vars,
                   credit_transactions, ai_usage>>

\* deduct_credits: select credits_balance, then the balance test
DeductRead(c) ==
    /\ \/ ai_calls[c].pc = "deduct_read"
       \/ ai_calls[c].pc = "idle"
    /\ \E amount \in DeductAmounts, out \in Outcomes :
          LET call == IF ai_calls[c].pc = "idle"
                      THEN [ai_calls[c] EXCEPT !.kind = "deduct", !.amount = amount,
                               !.start_balance = IF profiles.exists
                                                 THEN profiles.credits_balance ELSE 0]
                      ELSE ai_calls[c]
          IN  SetAICall(c,
                 IF out = "raises" \/ ~profiles.exists
                 THEN AfterDeduct(call, "False")
                 ELSE IF insufficient(profiles.credits_balance, call.amount)
                 THEN AfterDeduct([call EXCEPT !.current_balance =
                                       profiles.credits_balance], "False")
                 ELSE [call EXCEPT !.pc = "deduct_update",
                                   !.current_balance = profiles.credits_balance,
                                   !.new_balance = profiles.credits_balance - call.amount])
    /\ UNCHANGED <<score_vars, local_vars, profiles, scan_vars, billing_vars,
                   credit_transactions, ai_usage>>

\* deduct_credits: update profiles set credits_balance = new_balance
DeductUpdate(c) ==
    /\ ai_calls[c].pc = "deduct_update"
    /\ \E out \in Outcomes :
          IF out = "ok"
          THEN /\ profiles' = [profiles EXCEPT !.credits_balance = ai_calls[c].new_balance]
               /\ SetAICall(c, [ai_calls[c] EXCEPT !.pc = "deduct_insert",
                                                   !.updates = @ + 1])
          ELSE /\ SetAICall(c, AfterDeduct(ai_calls[c], "False"))
               /\ UNCHANGED profiles
    /\ UNCHANGED <<score_vars, local_vars, scan_vars, billing_vars, credit_transactions, ai_usage>>

\* deduct_credits: insert the credit_usage row
DeductInsert(c) ==
    /\ ai_calls[c].pc = "deduct_insert"
    /\ \E out \in Outcomes :
          IF out = "ok"
          THEN /\ credit_transactions' = Append(credit_transactions,
                      [type |-> "credit_usage", amount |-> 0 - ai_calls[c].amount,
                       balance_after |-> ai_calls[c].new_balance, call |-> c])
               /\ SetAICall(c, AfterDeduct([ai_calls[c] EXCEPT !.inserts = @ + 1], "True"))
          ELSE /\ SetAICall(c, AfterDeduct(ai_calls[c], "False"))
               /\ UNCHANGED credit_transactions
    /\ UNCHANGED <<score_vars, local_vars, profiles, scan_vars, billing_vars, ai_usage>>

\* _log_ai_usage(success=True), which swallows its own failure; return the result
LogSuccess(c) ==
    /\ ai_calls[c].pc = "log_success"
    /\ \E out \in Outcomes :
          ai_usage' = IF out = "ok"
                      THEN ai_usage \cup {[operation |-> ai_calls[c].kind,
                                           success |-> TRUE, call |-> c]}
                      ELSE ai_usage
    /\ SetAICall(c, [ai_calls[c] EXCEPT !.pc = "done", !.result = "result"])
    /\ UNCHANGED <<score_vars, local_vars, profiles, scan_vars, billing_vars, credit_transactions>>

\* except: _log_ai_usage(success=False); return None
LogFailure(c) ==
    /\ ai_calls[c].pc = "log_failure"
    /\ \E out \in Outcomes :
          ai_usage' = IF out = "ok"
                      THEN ai_usage \cup {[operation |-> ai_calls[c].kind,
                                           success |-> FALSE, call |-> c]}
                      ELSE ai_usage
    /\ SetAICall(c, [ai_calls[c] EXCEPT !.pc = "done", !.result = "None"])
    /\ UNCHANGED <<score_vars, local_vars, profiles, scan_vars, billing_vars, credit_transactions>>

\* _grant_credits: select credits_balance; it logs and re-raises
GrantRead(c) ==
    /\ ai_calls[c].pc = "idle"
    /\ \E amount \in GrantAmounts, out \in Outcomes :
          LET call == [ai_calls[c] EXCEPT !.kind = "grant", !.amount = amount,
                          !.start_balance = IF profiles.exists
                                            THEN profiles.credits_balance ELSE 0]
          IN  SetAICall(c,
                 IF out = "raises" \/ ~profiles.exists
                 THEN [call EXCEPT !.pc = "done", !.result = "raised"]
                 ELSE [call EXCEPT !.pc = "grant_update",
                                   !.current_balance = profiles.credits_balance,
                                   !.new_balance = profiles.credits_balance + amount])
    /\ UNCHANGED <<score_vars, local_vars, profiles, scan_vars, billing_vars,
                   credit_transactions, ai_usage>>

\* _grant_credits: update profiles set credits_balance = new_balance
GrantUpdate(c) ==
    /\ ai_calls[c].pc = "grant_update"
    /\ \E out \in Outcomes :
          IF out = "ok"
          THEN /\ profiles' = [profiles EXCEPT !.credits_balance = ai_calls[c].new_balance]
               /\ SetAICall(c, [ai_calls[c] EXCEPT !.pc = "grant_insert",
                                                   !.updates = @ + 1])
          ELSE /\ SetAICall(c, [ai_calls[c] EXCEPT !.pc = "done", !.result = "raised"])
               /\ UNCHANGED profiles
    /\ UNCHANGED <<score_vars, local_vars, scan_vars, billing_vars, credit_transactions, ai_usage>>

\* _grant_credits: insert the subscription_credit row
GrantInsert(c) ==
    /\ ai_calls[c].pc = "grant_insert"
    /\ \E out \in Outcomes :
          IF out = "ok"
          THEN /\ credit_transactions' = Append(credit_transactions,
                      [type |-> "subscription_credit", amount |-> ai_calls[c].amount,
                       balance_after |-> ai_calls[c].new_balance, call |-> c])
               /\ SetAICall(c, [ai_calls[c] EXCEPT !.pc = "done", !.result = "returned",
                                                   !.inserts = @ + 1])
          ELSE /\ SetAICall(c, [ai_calls[c] EXCEPT !.pc = "done", !.result = "raised"])
               /\ UNCHANGED credit_transactions
    /\ UNCHANGED <<score_vars, local_vars, profiles, scan_vars, billing_vars, ai_usage>>

CreditNext ==
    \E c \in CreditCallIds :
        \/ CheckCredits(c)
        \/ GenerateContent(c)
        \/ DeductRead(c)
        \/ DeductUpdate(c)
        \/ DeductInsert(c)
        \/ LogSuccess(c)
        \/ LogFailure(c)
        \/ GrantRead(c)
        \/ GrantUpdate(c)
        \/ GrantInsert(c)


(***************************************************************************)
(* Stripe webhooks.  Three receivers write the same 'profiles' table:      *)
(* StripeService (src/stripe_local.py), the Flask server (src/webhook.py)  *)
(* and the Streamlit listener (src/services/stripe_webhook_streamlit.py);  *)
(* a fourth, src/services/stripe_webhook_handler.py, writes the SQLite     *)
(* database.  Deliveries are handled one after the other.                  *)
(***************************************************************************)
NumDeliveries == 2

BaseEvent ==
    [type |-> "", tier |-> "", interval |-> "", status |-> "active",
     mode |-> "subscription", credits |-> 0, price_has |-> ""]

\* The events Stripe sends: metadata tier and interval as create_checkout_session
\* sets them, "" where the object carries none.
EventCatalogue ==
    [evt_checkout  |-> [BaseEvent EXCEPT !.type = "checkout.session.completed",
                           !.tier = "pro", !.interval = "monthly", !.price_has = "PRO"],
     evt_pack      |-> [BaseEvent EXCEPT !.type = "checkout.session.completed",
                           !.mode = "payment", !.credits = 1000],
     evt_created   |-> [BaseEvent EXCEPT !.type = "customer.subscription.created",
                           !.tier = "agency", !.interval = "monthly"],
     evt_updated   |-> [BaseEvent EXCEPT !.type = "customer.subscription.updated",
                           !.status = "past_due"],
     evt_deleted   |-> [BaseEvent EXCEPT !.type = "customer.subscription.deleted",
                           !.status = "canceled"],
     evt_paid      |-> [BaseEvent EXCEPT !.type = "invoice.paid"],
     evt_succeeded |-> [BaseEvent EXCEPT !.type = "invoice.payment_succeeded",
                           !.tier = "elite", !.interval = "monthly"],
     evt_failed    |-> [BaseEvent EXCEPT !.type = "invoice.payment_failed"]]

EventIds == DOMAIN EventCatalogue

NoPricing == [amount |-> 0, credits |-> 0, scan_limit |-> 0]

IdleDelivery ==
    [pc |-> "idle", server |-> "", event |-> "", verified |-> FALSE, result |-> "",
     pricing |-> NoPricing, tier |-> "", status |-> "", credits |-> 0,
     current_balance |-> 0]

Ev == EventCatalogue[delivery.event]

untouched == <<score_vars, local_vars, scan_vars, ai_usage, ai_calls>>

\* A wrong verification: nothing is ever rejected.
rejected_never(valid) == FALSE

\* stripe.Webhook.construct_event raises ValueError (payload) or
\* SignatureVerificationError (signature) unless both are valid
rejected(valid) == ~valid

\* A delivery can start when none is being handled.
CanReceive == delivery.pc \in {"idle", "done"} /\ delivered < NumDeliveries

Finish(d, res) == [d EXCEPT !.pc = "done", !.result = res]

\* PRICING_CONFIG[tier][interval], a KeyError when either key is missing
HasPricing(tier, interval) ==
    /\ tier \in DOMAIN PRICING_CONFIG
    /\ interval \in DOMAIN PRICING_CONFIG[tier]

(***************************************************************************)
(* StripeService.process_webhook_event and its handlers.                   *)
(***************************************************************************)

\* handler_map.get(event_type): the first step of the handler
handler_map(type) ==
    CASE type = "checkout.session.completed"    -> "co_retrieve"
      [] type = "customer.subscription.updated" -> "su_update"
      [] type = "customer.subscription.deleted" -> "sd_update_sub"
      [] type = "invoice.paid"                  -> "ip_select_sub"
      [] type = "invoice.payment_failed"        -> "pf_update"
      [] OTHER                                  -> "unhandled"

\* A wrong downgrade: to a tier named 'free' with five scans.
canceled_tier_free == [tier |-> "free", monthly_scan_limit |-> 5]

\* _handle_subscription_deleted: the tier and scan limit it writes
canceled_tier == [tier |-> "demo", monthly_scan_limit |-> 2]

\* verify_webhook_signature, then process_webhook_event: select the event row
SvcReceive ==
    /\ CanReceive
    /\ \E e \in EventIds, valid \in BOOLEAN :
          delivery' = IF rejected(valid)
                      THEN [IdleDelivery EXCEPT !.pc = "done", !.server = "service",
                                                !.event = e, !.verified = valid,
                                                !.result = "None"]
                      ELSE [IdleDelivery EXCEPT !.pc = "svc_select", !.server = "service",
                                                !.event = e, !.verified = valid]
    /\ delivered' = delivered + 1
    /\ UNCHANGED <<untouched, profiles, credit_transactions, subscriptions,
                   stripe_events, payments>>

\* select from stripe_events; an event marked processed is skipped
SvcSelectEvent ==
    /\ delivery.pc = "svc_select"
    /\ \E out \in Outcomes :
          delivery' = IF out = "raises" THEN [delivery EXCEPT !.pc = "svc_except"]
                      ELSE IF stripe_events[delivery.event].exists
                              /\ stripe_events[delivery.event].processed
                      THEN Finish(delivery, "Event already processed")
                      ELSE [delivery EXCEPT !.pc = "svc_upsert"]
    /\ UNCHANGED <<untouched, profiles, credit_transactions, subscriptions,
                   stripe_events, payments, delivered>>

\* upsert into stripe_events with processed = False, then route to the handler
SvcUpsertEvent ==
    /\ delivery.pc = "svc_upsert"
    /\ \E out \in Outcomes :
          IF out = "ok"
          THEN /\ stripe_events' = [stripe_events EXCEPT ![delivery.event] =
                                       [exists |-> TRUE, processed |-> FALSE]]
               /\ delivery' = IF handler_map(Ev.type) = "unhandled"
                              THEN Finish(delivery, "Event type not handled")
                              ELSE [delivery EXCEPT !.pc = handler_map(Ev.type)]
          ELSE /\ delivery' = [delivery EXCEPT !.pc = "svc_except"]
               /\ UNCHANGED stripe_events
    /\ UNCHANGED <<untouched, profiles, credit_transactions, subscriptions,
                   payments, delivered>>

\* _handle_checkout_completed: metadata, stripe.Subscription.retrieve and
\* PRICING_CONFIG[tier][interval]; any exception returns (False, str(e))
SvcCheckoutRetrieve ==
    /\ delivery.pc = "co_retrieve"
    /\ \E out \in Outcomes :
          delivery' = IF out = "ok" /\ HasPricing(Ev.tier, Ev.interval)
                      THEN [delivery EXCEPT !.pc = "co_insert_sub", !.tier = Ev.tier,
                               !.pricing = PRICING_CONFIG[Ev.tier][Ev.interval]]
                      ELSE Finish(delivery, "failed")
    /\ UNCHANGED <<untouched, profiles, credit_transactions, subscriptions,
                   stripe_events, payments, delivered>>

\* _handle_checkout_completed: insert into subscriptions
SvcCheckoutInsertSub ==
    /\ delivery.pc = "co_insert_sub"
    /\ \E out \in Outcomes :
          IF out = "ok"
          THEN /\ subscriptions' = Append(subscriptions,
                      [status |-> Ev.status, tier |-> delivery.tier,
                       interval |-> Ev.interval, event |-> delivery.event])
               /\ delivery' = [delivery EXCEPT !.pc = "co_update_profile"]
          ELSE /\ delivery' = Finish(delivery, "failed")
               /\ UNCHANGED subscriptions
    /\ UNCHANGED <<untouched, profiles, credit_transactions, stripe_events,
                   payments, delivered>>

\* _handle_checkout_completed: update profiles tier and monthly_scan_limit
SvcCheckoutUpdateProfile ==
    /\ delivery.pc = "co_update_profile"
    /\ \E out \in Outcomes :
          IF out = "ok"
          THEN /\ profiles' = IF profiles.exists
                              THEN [profiles EXCEPT !.tier = delivery.tier,
                                       !.monthly_scan_limit = delivery.pricing.scan_limit]
                              ELSE profiles
               /\ delivery' = [delivery EXCEPT !.pc = "gr_read"]
          ELSE /\ delivery' = Finish(delivery, "failed")
               /\ UNCHANGED profiles
    /\ UNCHANGED <<untouched, credit_transactions, subscriptions, stripe_events,
                   payments, delivered>>

\* _grant_credits called by a handler: select credits_balance
SvcGrantRead ==
    /\ delivery.pc = "gr_read"
    /\ \E out \in Outcomes :
          delivery' = IF out = "ok" /\ profiles.exists
                      THEN [delivery EXCEPT !.pc = "gr_update",
                               !.current_balance = profiles.credits_balance]
                      ELSE Finish(delivery, "failed")
    /\ UNCHANGED <<untouched, profiles, credit_transactions, subscriptions,
                   stripe_events, payments, delivered>>

\* _grant_credits called by a handler: update credits_balance
SvcGrantUpdate ==
    /\ delivery.pc = "gr_update"
    /\ \E out \in Outcomes :
          IF out = "ok"
          THEN /\ profiles' = [profiles EXCEPT !.credits_balance =
                                  delivery.current_balance + delivery.pricing.credits]
               /\ delivery' = [delivery EXCEPT !.pc = "gr_insert"]
          ELSE /\ delivery' = Finish(delivery, "failed")
               /\ UNCHANGED profiles
    /\ UNCHANGED <<untouched, credit_transactions, subscriptions, stripe_events,
                   payments, delivered>>

\* _grant_credits called by a handler: insert the subscription_credit row;
\* the checkout handler then writes its audit log and returns True
SvcGrantInsert ==
    /\ delivery.pc = "gr_insert"
    /\ \E out \in Outcomes :
          IF out = "ok"
          THEN /\ credit_transactions' = Append(credit_transactions,
                      [type |-> "subscription_credit",
                       amount |-> delivery.pricing.credits,
                       balance_after |-> delivery.current_balance
                                         + delivery.pricing.credits,
                       call |-> 0, event |-> delivery.event])
               /\ delivery' = [delivery EXCEPT !.pc =
                                  IF Ev.type = "invoice.paid" THEN "ip_reset"
                                  ELSE "svc_mark"]
          ELSE /\ delivery' = Finish(delivery, "failed")
               /\ UNCHANGED credit_transactions
    /\ UNCHANGED <<untouched, profiles, subscriptions, stripe_events, payments,
                   delivered>>

\* _handle_subscription_updated: update the subscription rows' status
SvcSubscriptionUpdated ==
    /\ delivery.pc = "su_update"
    /\ \E out \in Outcomes :
          IF out = "ok"
          THEN /\ subscriptions' = [i \in DOMAIN subscriptions |->
                                       [subscriptions[i] EXCEPT !.status = Ev.status]]
               /\ delivery' = [delivery EXCEPT !.pc = "svc_mark"]
          ELSE /\ delivery' = Finish(delivery, "failed")
               /\ UNCHANGED subscriptions
    /\ UNCHANGED <<untouched, profiles, credit_transactions, stripe_events,
                   payments, delivered>>

\* _handle_subscription_deleted: subscriptions.status = 'canceled'
SvcDeletedUpdateSub ==
    /\ delivery.pc = "sd_update_sub"
    /\ \E out \in Outcomes :
          IF out = "ok"
          THEN /\ subscriptions' = [i \in DOMAIN subscriptions |->
                                       [subscriptions[i] EXCEPT !.status = "canceled"]]
               /\ delivery' = [delivery EXCEPT !.pc = "sd_downgrade"]
          ELSE /\ delivery' = Finish(delivery, "failed")
               /\ UNCHANGED subscriptions
    /\ UNCHANGED <<untouched, profiles, credit_transactions, stripe_events,
                   payments, delivered>>

\* _handle_subscription_deleted: downgrade the profile, audit log, return True
SvcDeletedDowngrade ==
    /\ delivery.pc = "sd_downgrade"
    /\ \E out \in Outcomes :
          IF out = "ok"
          THEN /\ profiles' = IF profiles.exists
                              THEN [profiles EXCEPT !.tier = canceled_tier.tier,
                                       !.monthly_scan_limit =
                                           canceled_tier.monthly_scan_limit]
                              ELSE profiles
               /\ delivery' = [delivery EXCEPT !.pc = "svc_mark"]
          ELSE /\ delivery' = Finish(delivery, "failed")
               /\ UNCHANGED profiles
    /\ UNCHANGED <<untouched, credit_transactions, subscriptions, stripe_events,
                   payments, delivered>>

\* _handle_invoice_paid: select the subscription row with .single(), which
\* raises unless exactly one row matches; then PRICING_CONFIG[tier][interval]
SvcInvoiceSelectSub ==
    /\ delivery.pc = "ip_select_sub"
    /\ \E out \in Outcomes :
          delivery' =
             IF out = "ok" /\ Len(subscriptions) = 1
                /\ HasPricing(subscriptions[1].tier, subscriptions[1].interval)
             THEN [delivery EXCEPT !.pc = "gr_read", !.tier = subscriptions[1].tier,
                      !.pricing = PRICING_CONFIG[subscriptions[1].tier]
                                                [subscriptions[1].interval]]
             ELSE Finish(delivery, "failed")
    /\ UNCHANGED <<untouched, profiles, credit_transactions, subscriptions,
                   stripe_events, payments, delivered>>

\* _handle_invoice_paid: reset monthly_scans_used
SvcInvoiceResetCounter ==
    /\ delivery.pc = "ip_reset"
    /\ \E out \in Outcomes :
          IF out = "ok"
          THEN /\ profiles' = [profiles EXCEPT !.monthly_scans_used = 0]
               /\ delivery' = [delivery EXCEPT !.pc = "svc_mark"]
          ELSE /\ delivery' = Finish(delivery, "failed")
               /\ UNCHANGED profiles
    /\ UNCHANGED <<untouched, credit_transactions, subscriptions, stripe_events,
                   payments, delivered>>

\* _handle_payment_failed: subscriptions.status = 'past_due'
SvcPaymentFailed ==
    /\ delivery.pc = "pf_update"
    /\ \E out \in Outcomes :
          IF out = "ok"
          THEN /\ subscriptions' = [i \in DOMAIN subscriptions |->
                                       [subscriptions[i] EXCEPT !.status = "past_due"]]
               /\ delivery' = [delivery EXCEPT !.pc = "svc_mark"]
          ELSE /\ delivery' = Finish(delivery, "failed")
               /\ UNCHANGED subscriptions
    /\ UNCHANGED <<untouched, profiles, credit_transactions, stripe_events,
                   payments, delivered>>

\* the handler returned True: mark the event processed
SvcMarkProcessed ==
    /\ delivery.pc = "svc_mark"
    /\ \E out \in Outcomes :
          IF out = "ok"
          THEN /\ stripe_events' = [stripe_events EXCEPT
                                       ![delivery.event].processed = TRUE]
               /\ delivery' = Finish(delivery, "handled")
          ELSE /\ delivery' = [delivery EXCEPT !.pc = "svc_except"]
               /\ UNCHANGED stripe_events
    /\ UNCHANGED <<untouched, profiles, credit_transactions, subscriptions,
                   payments, delivered>>

\* except Exception: update retry_count, return (False, str(e)); the update
\* itself is not guarded
SvcExcept ==
    /\ delivery.pc = "svc_except"
    /\ \E out \in Outcomes :
          delivery' = Finish(delivery, IF out = "ok" THEN "error" ELSE "raised")
    /\ UNCHANGED <<untouched, profiles, credit_transactions, subscriptions,
                   stripe_events, payments, delivered>>

(***************************************************************************)
(* The Flask server, src/webhook.py.  Its helpers catch and log every      *)
(* exception of their own database calls.                                  *)
(***************************************************************************)

\* update_user_subscription: the limits and credits set for the tier
tier_limits(tier) ==
    CASE tier = "pro"    -> [set |-> TRUE, monthly_scan_limit |-> 50,
                             credits_balance |-> 0 + 10000]
      [] tier = "agency" -> [set |-> TRUE, monthly_scan_limit |-> 200,
                             credits_balance |-> 0 + 50000]
      [] tier = "elite"  -> [set |-> TRUE, monthly_scan_limit |-> 999999,
                             credits_balance |-> 0 + 200000]
      [] OTHER           -> [set |-> FALSE, monthly_scan_limit |-> 0,
                             credits_balance |-> 0]

\* handle_invoice_paid: monthly credits by tier
renewal_credits(tier) ==
    CASE tier = "pro"    -> 10000
      [] tier = "agency" -> 50000
      [] tier = "elite"  -> 200000
      [] OTHER           -> 0

\* metadata.get('tier', 'pro')
metadata_tier(e) == IF e.tier = "" THEN "pro" ELSE e.tier

\* webhook(): construct_event, then the if / elif chain over event['type']
FlaskReceive ==
    /\ CanReceive
    /\ \E e \in EventIds, valid \in BOOLEAN :
          LET ev == EventCatalogue[e]
              d  == [IdleDelivery EXCEPT !.server = "flask", !.event = e,
                                        !.verified = valid]
          IN  delivery' =
                 IF rejected(valid) THEN Finish(d, "400")
                 ELSE CASE ev.type = "checkout.session.completed" ->
                              [d EXCEPT !.pc = "fl_co_customer"]
                        [] ev.type = "customer.subscription.created" ->
                              IF ev.status = "active"
                              THEN [d EXCEPT !.pc = "fl_us_select",
                                             !.tier = metadata_tier(ev),
                                             !.status = ev.status]
                              ELSE Finish(d, "200")
                        [] ev.type = "customer.subscription.updated" ->
                              [d EXCEPT !.pc = "fl_us_select",
                                        !.tier = metadata_tier(ev),
                                        !.status = ev.status]
                        [] ev.type = "customer.subscription.deleted" ->
                              [d EXCEPT !.pc = "fl_us_select", !.tier = "free",
                                        !.status = "canceled"]
                        [] ev.type = "invoice.payment_succeeded" ->
                              [d EXCEPT !.pc = "fl_inv_retrieve"]
                        [] OTHER -> Finish(d, "200")
    /\ delivered' = delivered + 1
    /\ UNCHANGED <<untouched, profiles, credit_transactions, subscriptions,
                   stripe_events, payments>>

\* handle_checkout_completed: store the customer id (failure logged), then a
\* credit pack is added when mode == 'payment'
FlaskCheckoutCustomer ==
    /\ delivery.pc = "fl_co_customer"
    /\ \E out \in Outcomes :
          profiles' = IF out = "ok" /\ profiles.exists
                      THEN [profiles EXCEPT !.stripe_customer_id = "cus_1"]
                      ELSE profiles
    /\ delivery' = IF Ev.mode = "payment" /\ Ev.credits > 0
                   THEN [delivery EXCEPT !.pc = "fl_ac_select", !.credits = Ev.credits]
                   ELSE Finish(delivery, "200")
    /\ UNCHANGED <<untouched, credit_transactions, subscriptions, stripe_events,
                   payments, delivered>>

\* add_credits_to_user: select the profile by stripe_customer_id
FlaskAddCreditsSelect ==
    /\ delivery.pc = "fl_ac_select"
    /\ \E out \in Outcomes :
          delivery' = IF out = "ok" /\ profiles.exists
                         /\ profiles.stripe_customer_id = "cus_1"
                      THEN [delivery EXCEPT !.pc = "fl_ac_update",
                               !.current_balance = profiles.credits_balance]
                      ELSE Finish(delivery, "200")
    /\ UNCHANGED <<untouched, profiles, credit_transactions, subscriptions,
                   stripe_events, payments, delivered>>

\* add_credits_to_user: update credits_balance
FlaskAddCreditsUpdate ==
    /\ delivery.pc = "fl_ac_update"
    /\ \E out \in Outcomes :
          profiles' = IF out = "ok"
                      THEN [profiles EXCEPT !.credits_balance =
                               delivery.current_balance + delivery.credits]
                      ELSE profiles
    /\ delivery' = Finish(delivery, "200")
    /\ UNCHANGED <<untouched, credit_transactions, subscriptions, stripe_events,
                   payments, delivered>>

\* update_user_subscription: select the profile by stripe_customer_id
FlaskSubscriptionSelect ==
    /\ delivery.pc = "fl_us_select"
    /\ \E out \in Outcomes :
          delivery' = IF out = "ok" /\ profiles.exists
                         /\ profiles.stripe_customer_id = "cus_1"
                      THEN [delivery EXCEPT !.pc = "fl_us_update"]
                      ELSE Finish(delivery, "200")
    /\ UNCHANGED <<untouched, profiles, credit_transactions, subscriptions,
                   stripe_events, payments, delivered>>

\* update_user_subscription: write tier, status and the limits of the tier
FlaskSubscriptionUpdate ==
    /\ delivery.pc = "fl_us_update"
    /\ \E out \in Outcomes :
          profiles' =
             IF out = "ok"
             THEN LET lim == tier_limits(delivery.tier)
                      row == [profiles EXCEPT !.tier = delivery.tier,
                                              !.subscription_status = delivery.status]
                  IN  IF lim.set
                      THEN [row EXCEPT !.monthly_scan_limit = lim.monthly_scan_limit,
                                       !.credits_balance = lim.credits_balance]
                      ELSE row
             ELSE profiles
    /\ delivery' = Finish(delivery, "200")
    /\ UNCHANGED <<untouched, credit_transactions, subscriptions, stripe_events,
                   payments, delivered>>

\* handle_invoice_paid: stripe.Subscription.retrieve, then credits by tier;
\* an exception here reaches webhook(), which answers 500
FlaskInvoiceRetrieve ==
    /\ delivery.pc = "fl_inv_retrieve"
    /\ \E out \in Outcomes :
          delivery' = IF out = "raises" THEN Finish(delivery, "500")
                      ELSE IF renewal_credits(metadata_tier(Ev)) > 0
                      THEN [delivery EXCEPT !.pc = "fl_ac_select",
                               !.credits = renewal_credits(metadata_tier(Ev))]
                      ELSE Finish(delivery, "200")
    /\ UNCHANGED <<untouched, profiles, credit_transactions, subscriptions,
                   stripe_events, payments, delivered>>

(***************************************************************************)
(* The Streamlit listener, src/services/stripe_webhook_streamlit.py.       *)
(* process_event runs outside any try block.                               *)
(***************************************************************************)

\* "pro" if "PRO" in price_id.upper() else "agency" if "AGENCY" in ... else "elite"
price_tier(price_has) ==
    IF price_has = "PRO" THEN "pro"
    ELSE IF price_has = "AGENCY" THEN "agency" ELSE "elite"

\* handle_request: construct_event, then process_event
StreamlitReceive ==
    /\ CanReceive
    /\ \E e \in EventIds, valid \in BOOLEAN :
          LET ev == EventCatalogue[e]
              d  == [IdleDelivery EXCEPT !.server = "streamlit", !.event = e,
                                        !.verified = valid]
          IN  delivery' =
                 IF rejected(valid) THEN Finish(d, "400")
                 ELSE CASE ev.type = "checkout.session.completed" ->
                              [d EXCEPT !.pc = "st_co_select"]
                        [] ev.type = "customer.subscription.deleted" ->
                              [d EXCEPT !.pc = "st_deleted"]
                        [] OTHER -> Finish(d, "200")
    /\ delivered' = delivered + 1
    /\ UNCHANGED <<untouched, profiles, credit_transactions, subscriptions,
                   stripe_events, payments>>

\* handle_checkout_session: skip a session already in 'payments', then map
\* the price id to a credit pack or to a tier
StreamlitCheckoutSelect ==
    /\ delivery.pc = "st_co_select"
    /\ \E out \in Outcomes :
          delivery' = IF out = "raises" THEN Finish(delivery, "raised")
                      ELSE IF delivery.event \in payments THEN Finish(delivery, "200")
                      ELSE IF Ev.credits > 0
                      THEN [delivery EXCEPT !.pc = "st_co_credits_read",
                                            !.credits = Ev.credits]
                      ELSE [delivery EXCEPT !.pc = "st_co_tier",
                                            !.tier = price_tier(Ev.price_has)]
    /\ UNCHANGED <<untouched, profiles, credit_transactions, subscriptions,
                   stripe_events, payments, delivered>>

\* handle_checkout_session: update profiles tier and subscription_status
StreamlitCheckoutTier ==
    /\ delivery.pc = "st_co_tier"
    /\ \E out \in Outcomes :
          IF out = "ok"
          THEN /\ profiles' = IF profiles.exists
                              THEN [profiles EXCEPT !.tier = delivery.tier,
                                                    !.subscription_status = "active"]
                              ELSE profiles
               /\ delivery' = [delivery EXCEPT !.pc = "st_co_payment"]
          ELSE /\ delivery' = Finish(delivery, "raised")
               /\ UNCHANGED profiles
    /\ UNCHANGED <<untouched, credit_transactions, subscriptions, stripe_events,
                   payments, delivered>>

\* handle_checkout_session: select credits_balance
StreamlitCreditsRead ==
    /\ delivery.pc = "st_co_credits_read"
    /\ \E out \in Outcomes :
          delivery' = IF out = "ok" /\ profiles.exists
                      THEN [delivery EXCEPT !.pc = "st_co_credits_write",
                               !.current_balance = profiles.credits_balance]
                      ELSE Finish(delivery, "raised")
    /\ UNCHANGED <<untouched, profiles, credit_transactions, subscriptions,
                   stripe_events, payments, delivered>>

\* handle_checkout_session: update credits_balance
StreamlitCreditsWrite ==
    /\ delivery.pc = "st_co_credits_write"
    /\ \E out \in Outcomes :
          IF out = "ok"
          THEN /\ profiles' = [profiles EXCEPT !.credits_balance =
                                  delivery.current_balance + delivery.credits]
               /\ delivery' = [delivery EXCEPT !.pc = "st_co_payment"]
          ELSE /\ delivery' = Finish(delivery, "raised")
               /\ UNCHANGED profiles
    /\ UNCHANGED <<untouched, credit_transactions, subscriptions, stripe_events,
                   payments, delivered>>

\* handle_checkout_session: insert into payments
StreamlitInsertPayment ==
    /\ delivery.pc = "st_co_payment"
    /\ \E out \in Outcomes :
          IF out = "ok"
          THEN /\ payments' = payments \cup {delivery.event}
               /\ delivery' = Finish(delivery, "200")
          ELSE /\ delivery' = Finish(delivery, "raised")
               /\ UNCHANGED payments
    /\ UNCHANGED <<untouched, profiles, credit_transactions, subscriptions,
                   stripe_events, delivered>>

\* handle_subscription_deleted: tier 'free', subscription_status 'inactive'
StreamlitSubscriptionDeleted ==
    /\ delivery.pc = "st_deleted"
    /\ \E out \in Outcomes :
          IF out = "ok"
          THEN /\ profiles' = IF profiles.exists
                              THEN [profiles EXCEPT !.tier = "free",
                                                    !.subscription_status = "inactive"]
                              ELSE profiles
               /\ delivery' = Finish(delivery, "200")
          ELSE /\ delivery' = Finish(delivery, "raised")
               /\ UNCHANGED profiles
    /\ UNCHANGED <<untouched, credit_transactions, subscriptions, stripe_events,
                   payments, delivered>>

(***************************************************************************)
(* handle_webhook of src/services/stripe_webhook_handler.py.  Each handler *)
(* is one SQLite transaction inside try / except Exception.                *)
(***************************************************************************)
handler_untouched ==
    <<score_vars, session, access, scan_vars, ai_usage, ai_calls, profiles,
      credit_transactions, subscriptions, stripe_events, payments, delivered>>

\* handle_webhook: construct_event, then the if / elif chain over event['type']
HandlerReceive ==
    /\ CanReceive
    /\ \E e \in EventIds, valid \in BOOLEAN :
          LET ev == EventCatalogue[e]
              d  == [IdleDelivery EXCEPT !.server = "handler", !.event = e,
                                        !.verified = valid]
          IN  delivery' =
                 IF rejected(valid) THEN Finish(d, "400")
                 ELSE CASE ev.type = "checkout.session.completed" ->
                              [d EXCEPT !.pc = "hd_checkout"]
                        [] ev.type = "customer.subscription.created" ->
                              [d EXCEPT !.pc = "hd_created"]
                        [] ev.type = "customer.subscription.updated" ->
                              [d EXCEPT !.pc = "hd_updated"]
                        [] ev.type = "customer.subscription.deleted" ->
                              [d EXCEPT !.pc = "hd_deleted"]
                        [] ev.type = "invoice.payment_failed" ->
                              [d EXCEPT !.pc = "hd_failed"]
                        [] OTHER -> Finish(d, "200")
    /\ delivered' = delivered + 1
    /\ UNCHANGED <<untouched, profiles, credit_transactions, subscriptions,
                   stripe_events, payments>>

\* handle_checkout_completed: UPDATE users SET stripe_customer_id
HandlerCheckoutCompleted ==
    /\ delivery.pc = "hd_checkout"
    /\ \E has_reference \in BOOLEAN, out \in Outcomes :
          IF ~has_reference
          THEN /\ delivery' = Finish(delivery, "400")
               /\ UNCHANGED sqlite_db
          ELSE IF out = "ok"
          THEN /\ sqlite_db' = [sqlite_db EXCEPT !.users.stripe_customer_id = "cus"]
               /\ delivery' = Finish(delivery, "200")
          ELSE /\ delivery' = Finish(delivery, "500")
               /\ UNCHANGED sqlite_db
    /\ UNCHANGED handler_untouched

\* handle_subscription_created: find the user by customer id, then
\* INSERT ... ON CONFLICT(stripe_subscription_id) DO UPDATE
HandlerSubscriptionCreated ==
    /\ delivery.pc = "hd_created"
    /\ \E out \in Outcomes :
          IF out = "raises"
          THEN /\ delivery' = Finish(delivery, "500")
               /\ UNCHANGED sqlite_db
          ELSE IF sqlite_db.users.stripe_customer_id # "cus"
          THEN /\ delivery' = Finish(delivery, "404")
               /\ UNCHANGED sqlite_db
          ELSE /\ sqlite_db' =
                     [sqlite_db EXCEPT !.subscriptions =
                         IF sqlite_db.subscriptions = << >>
                         THEN <<[status |-> Ev.status]>>
                         ELSE [i \in DOMAIN sqlite_db.subscriptions |->
                                  [sqlite_db.subscriptions[i] EXCEPT
                                      !.status = Ev.status]]]
               /\ delivery' = Finish(delivery, "200")
    /\ UNCHANGED handler_untouched

\* UPDATE subscriptions SET status = ? WHERE stripe_subscription_id = ?
SetStatus(status) ==
    /\ \E out \in Outcomes :
          IF out = "ok"
          THEN /\ sqlite_db' =
                     [sqlite_db EXCEPT !.subscriptions =
                         [i \in DOMAIN sqlite_db.subscriptions |->
                             [sqlite_db.subscriptions[i] EXCEPT !.status = status]]]
               /\ delivery' = Finish(delivery, "200")
          ELSE /\ delivery' = Finish(delivery, "500")
               /\ UNCHANGED sqlite_db
    /\ UNCHANGED handler_untouched

\* handle_subscription_updated
HandlerSubscriptionUpdated == delivery.pc = "hd_updated" /\ SetStatus(Ev.status)

\* handle_subscription_deleted
HandlerSubscriptionDeleted == delivery.pc = "hd_deleted" /\ SetStatus("canceled")

\* handle_invoice_payment_failed
HandlerPaymentFailed == delivery.pc = "hd_failed" /\ SetStatus("past_due")

BillingNext ==
    \/ SvcReceive
    \/ SvcSelectEvent
    \/ SvcUpsertEvent
    \/ SvcCheckoutRetrieve
    \/ SvcCheckoutInsertSub
    \/ SvcCheckoutUpdateProfile
    \/ SvcGrantRead
    \/ SvcGrantUpdate
    \/ SvcGrantInsert
    \/ SvcSubscriptionUpdated
    \/ SvcDeletedUpdateSub
    \/ SvcDeletedDowngrade
    \/ SvcInvoiceSelectSub
    \/ SvcInvoiceResetCounter
    \/ SvcPaymentFailed
    \/ SvcMarkProcessed
    \/ SvcExcept
    \/ FlaskReceive
    \/ FlaskCheckoutCustomer
    \/ FlaskAddCreditsSelect
    \/ FlaskAddCreditsUpdate
    \/ FlaskSubscriptionSelect
    \/ FlaskSubscriptionUpdate
    \/ FlaskInvoiceRetrieve
    \/ StreamlitReceive
    \/ StreamlitCheckoutSelect
    \/ StreamlitCheckoutTier
    \/ StreamlitCreditsRead
    \/ StreamlitCreditsWrite
    \/ StreamlitInsertPayment
    \/ StreamlitSubscriptionDeleted
    \/ HandlerReceive
    \/ HandlerCheckoutCompleted
    \/ HandlerSubscriptionCreated
    \/ HandlerSubscriptionUpdated
    \/ HandlerSubscriptionDeleted
    \/ HandlerPaymentFailed

(***************************************************************************)
(* The Streamlit app of a demo visitor: src/app.py and                     *)
(* src/pages/3_Advanced_Scanner.py.  Every click reruns the script of the  *)
(* page it is on; st.session_state is what survives between runs.          *)
(***************************************************************************)
MaxDemoScans == 4

\* PLANS[plan]['scans_per_month']
PLANS ==
    [demo |-> [scans_per_month |-> 2], pro |-> [scans_per_month |-> 50],
     agency |-> [scans_per_month |-> 200], elite |-> [scans_per_month |-> -1]]

\* Stands for float('inf'): above every count the session can hold.
Infinity == 1000000

\* get_scans_limit: PLANS.get(user_plan, {}).get('scans_per_month', 2)
get_scans_limit(user_plan) ==
    LET limit == IF user_plan \in DOMAIN PLANS
                 THEN PLANS[user_plan].scans_per_month ELSE 2
    IN  IF limit > 0 THEN limit ELSE Infinity

\* can_scan
can_scan(sess) ==
    IF sess.user_plan = "elite" THEN TRUE
    ELSE sess.scans_used < get_scans_limit(sess.user_plan)

\* session state initialised at the top of app.py, the login page showing
FreshSession ==
    [user |-> "None", user_plan |-> "demo", scans_used |-> 0, view |-> "login",
     shows |-> "", last |-> "", scans_done |-> 0]

\* is_demo_user
is_demo_user(sess) ==
    sess.user # "None" /\ (sess.user = "demo_user" \/ sess.user_plan = "demo")

\* load_user_data: the demo user gets plan 'demo' and counter 0 anew; a
\* signed-in user gets what the 'profiles' row holds, nothing when there is
\* no row, and 'demo' / 0 when the select raises
load_user_data(sess, out) ==
    IF sess.user = "demo_user"
    THEN [sess EXCEPT !.user_plan = "demo", !.scans_used = 0]
    ELSE IF out = "raises"
    THEN [sess EXCEPT !.user_plan = "demo", !.scans_used = 0]
    ELSE IF profiles.exists
    THEN [sess EXCEPT !.user_plan = profiles.tier,
                      !.scans_used = profiles.monthly_scans_used]
    ELSE sess

\* main() with a user in the session: load_user_data, then the dashboard of
\* the user, which offers its scan button only while can_scan()
main(sess, out) ==
    LET loaded == load_user_data(sess, out)
    IN  [loaded EXCEPT !.view = IF is_demo_user(loaded) THEN "demo_dashboard"
                                ELSE "user_dashboard",
                       !.last = "",
                       !.shows = IF can_scan(loaded) THEN "start_scan"
                                 ELSE "no_scans"]

Dashboards == {"demo_dashboard", "user_dashboard"}

DemoUnchanged ==
    UNCHANGED <<score_vars, scan_calls, credit_vars, billing_vars, access, sqlite_db>>

\* render_login: the Try Demo button, then st.rerun()
TryDemo ==
    /\ session.view = "login"
    /\ session' = main([session EXCEPT !.user = "demo_user", !.user_plan = "demo",
                                       !.scans_used = 0, !.scans_done = 0], "ok")
    /\ UNCHANGED <<profiles, scans>>
    /\ DemoUnchanged

\* render_login: the Sign In form succeeds, then st.rerun()
SignIn ==
    /\ session.view = "login"
    /\ \E out \in Outcomes :
          session' = main([session EXCEPT !.user = "user_1", !.scans_done = 0], out)
    /\ UNCHANGED <<profiles, scans>>
    /\ DemoUnchanged

\* any rerun of app.py with a user in the session
RenderDashboard ==
    /\ session.user # "None"
    /\ session.view # "login"
    /\ \E out \in Outcomes : session' = main(session, out)
    /\ UNCHANGED <<profiles, scans>>
    /\ DemoUnchanged

\* the dashboard's scan button switches to the Advanced Scanner page
StartScan ==
    /\ session.view \in Dashboards
    /\ session.shows = "start_scan"
    /\ session' = [session EXCEPT !.view = "scanner", !.shows = "", !.last = ""]
    /\ UNCHANGED <<profiles, scans>>
    /\ DemoUnchanged

\* the dashboard's other buttons: results, upgrade, plans
LeaveDashboard ==
    /\ session.view \in Dashboards
    /\ \E target \in {"results", "billing"} :
          session' = [session EXCEPT !.view = target, !.shows = "", !.last = ""]
    /\ UNCHANGED <<profiles, scans>>
    /\ DemoUnchanged

\* 3_Advanced_Scanner.py: the scan form is submitted; the page reads
\* scans_used from the session and, once the data is extracted, writes back
\* scans_used + 1; for a signed-in user it then inserts into 'scans' and
\* updates 'profiles' inside one try block whose failure is passed over
SubmitScan ==
    /\ session.view = "scanner"
    /\ session.scans_done < MaxDemoScans
    /\ Len(scans) < MaxDemoScans
    /\ \E url \in BOOLEAN, model \in BOOLEAN, data \in BOOLEAN,
          insert \in Outcomes, out \in Outcomes :
          LET scans_used == session.scans_used
              scanned    == url /\ model /\ data
              saved      == scanned /\ session.user # "demo_user" /\ insert = "ok"
          IN  /\ session' =
                    IF ~url THEN [session EXCEPT !.last = ""]
                    ELSE IF ~model THEN [session EXCEPT !.last = "no_ai"]
                    ELSE IF ~data THEN [session EXCEPT !.last = "no_data"]
                    ELSE [session EXCEPT !.last = "scanned",
                                         !.scans_used = scans_used + 1,
                                         !.scans_done = @ + 1]
              /\ scans' =
                    IF saved
                    THEN Append(scans, [status |-> "", error_message |-> "",
                                        scores |-> NoScores, call |-> 0])
                    ELSE scans
              /\ profiles' =
                    IF saved /\ out = "ok" /\ profiles.exists
                    THEN [profiles EXCEPT !.monthly_scans_used = scans_used + 1]
                    ELSE profiles
    /\ DemoUnchanged

\* the dashboard's exit / logout button, then st.rerun() shows the login page
ExitDemo ==
    /\ session.view \in Dashboards
    /\ session' = [session EXCEPT !.user = "None", !.view = "login", !.shows = "",
                                  !.last = ""]
    /\ UNCHANGED <<profiles, scans>>
    /\ DemoUnchanged

DemoNext ==
    \/ TryDemo
    \/ SignIn
    \/ RenderDashboard
    \/ StartScan
    \/ LeaveDashboard
    \/ SubmitScan
    \/ ExitDemo

(***************************************************************************)
(* The multi-agent analysis of src/pages/3_Advanced_Scanner.py, from the   *)
(* point where the page has been scraped.  A dict returned by an agent is  *)
(* kept as what it is: "result" (the model's JSON), "fallback" (the dict   *)
(* of the agent's except clause), "locked" (the placeholder with a zero    *)
(* score of a skipped agent) or "empty" ({}).                              *)
(***************************************************************************)
PLAN_FEATURES ==
    [demo   |-> [name |-> "Demo", ai_agents |-> 1, competitors |-> 0,
                 action_plan_days |-> 0],
     pro    |-> [name |-> "Pro", ai_agents |-> 2, competitors |-> 3,
                 action_plan_days |-> 30],
     agency |-> [name |-> "Agency", ai_agents |-> 3, competitors |-> 5,
                 action_plan_days |-> 60],
     elite  |-> [name |-> "Elite", ai_agents |-> 4, competitors |-> 10,
                 action_plan_days |-> 90]]

\* PLAN_FEATURES.get(user_plan, PLAN_FEATURES['demo'])
plan_features(user_plan) ==
    IF user_plan \in DOMAIN PLAN_FEATURES THEN PLAN_FEATURES[user_plan]
    ELSE PLAN_FEATURES["demo"]

\* session_state.user_plan: the four plans and two values PLAN_FEATURES
\* does not know.
PlanValues == DOMAIN PLAN_FEATURES \cup {"free", "Pro"}

ScannerStart(user_plan) ==
    [pc |-> "agent1", user_plan |-> user_plan, ran |-> {}, tech_analysis |-> "",
     content_analysis |-> "", comp_analysis |-> "", strategic_plan |-> "",
     report |-> [technical_analysis |-> "", content_analysis |-> "",
                 competitive_analysis |-> "", strategic_plan |-> ""]]

\* A wrong export: the analyses are exported as they are.
report_unfiltered(sess) ==
    [technical_analysis |-> sess.tech_analysis,
     content_analysis |-> sess.content_analysis,
     competitive_analysis |-> sess.comp_analysis,
     strategic_plan |-> sess.strategic_plan]

\* report = {...}: each analysis, or {} below the plan's threshold
report(sess) ==
    LET ai_agents == plan_features(sess.user_plan).ai_agents
    IN  [technical_analysis |-> sess.tech_analysis,
         content_analysis |-> IF ai_agents >= 2 THEN sess.content_analysis
                              ELSE "empty",
         competitive_analysis |-> IF ai_agents >= 3 THEN sess.comp_analysis
                                  ELSE "empty",
         strategic_plan |-> IF ai_agents >= 4 THEN sess.strategic_plan
                            ELSE "empty"]

ScannerUnchanged ==
    UNCHANGED <<score_vars, profiles, scan_vars, credit_vars, billing_vars,
                access, sqlite_db>>

\* Agent 1: ai_technical_analysis, which returns its fallback dict on any
\* exception
AgentTechnical ==
    /\ session.pc = "agent1"
    /\ \E out \in Outcomes :
          session' = [session EXCEPT !.pc = "agent2", !.ran = @ \cup {1},
                         !.tech_analysis = IF out = "ok" THEN "result"
                                           ELSE "fallback"]
    /\ ScannerUnchanged

\* Agent 2: ai_content_analysis when ai_agents >= 2
AgentContent ==
    /\ session.pc = "agent2"
    /\ \E out \in Outcomes :
          session' =
             IF plan_features(session.user_plan).ai_agents >= 2
             THEN [session EXCEPT !.pc = "agent3", !.ran = @ \cup {2},
                      !.content_analysis = IF out = "ok" THEN "result"
                                           ELSE "fallback"]
             ELSE [session EXCEPT !.pc = "agent3", !.content_analysis = "locked"]
    /\ ScannerUnchanged

\* Agent 3: ai_competitive_analysis when ai_agents >= 3
AgentCompetitive ==
    /\ session.pc = "agent3"
    /\ \E out \in Outcomes :
          session' =
             IF plan_features(session.user_plan).ai_agents >= 3
             THEN [session EXCEPT !.pc = "agent4", !.ran = @ \cup {3},
                      !.comp_analysis = IF out = "ok" THEN "result"
                                        ELSE "fallback"]
             ELSE [session EXCEPT !.pc = "agent4", !.comp_analysis = "locked"]
    /\ ScannerUnchanged

\* Agent 4: ai_strategic_plan when ai_agents >= 4 and action_plan_days > 0;
\* it returns {} without a model and on any exception
AgentStrategic ==
    /\ session.pc = "agent4"
    /\ \E out \in Outcomes \cup {"no_model"} :
          session' =
             IF /\ plan_features(session.user_plan).ai_agents >= 4
                /\ plan_features(session.user_plan).action_plan_days > 0
             THEN [session EXCEPT !.pc = "report", !.ran = @ \cup {4},
                      !.strategic_plan = IF out = "ok" THEN "result" ELSE "empty"]
             ELSE [session EXCEPT !.pc = "report", !.strategic_plan = "empty"]
    /\ ScannerUnchanged

\* the results are rendered and the report dict is built
BuildReport ==
    /\ session.pc = "report"
    /\ session' = [session EXCEPT !.pc = "done", !.report = report(session)]
    /\ ScannerUnchanged

ScannerNext ==
    \/ AgentTechnical
    \/ AgentContent
    \/ AgentCompetitive
    \/ AgentStrategic
    \/ BuildReport

(***************************************************************************)
(* rbac_system.can_access_page (src/rbac_system.py).  A str is kept as its *)
(* lower-case letters and the set of positions written in upper case, so   *)
(* that str.lower() is the operation that empties that set.                *)
(***************************************************************************)
MaxUpperPositions == 2

Text(base, upper) == [none |-> FALSE, base |-> base, upper |-> upper]

NoneText == [none |-> TRUE, base |-> "", upper |-> {}]

\* str.lower()
lower(text) == [text EXCEPT !.upper = {}]

TIER_FEATURES ==
    [demo   |-> [name |-> "Demo", pages_access |-> {"3_advanced_scanner", "2_scan_results",
                    "4_billing", "check_prices"}],
     pro    |-> [name |-> "Pro", pages_access |-> {"3_advanced_scanner", "2_scan_results",
                    "4_billing", "check_prices", "competitor_analysis",
                    "backlink_monitor", "keyword_tracker"}],
     agency |-> [name |-> "Agency", pages_access |-> {"3_advanced_scanner", "2_scan_results",
                    "4_billing", "check_prices", "competitor_analysis",
                    "backlink_monitor", "keyword_tracker", "client_management",
                    "team_dashboard", "white_label_reports", "scheduled_scans"}],
     elite  |-> [name |-> "Elite", pages_access |-> {"3_advanced_scanner", "2_scan_results",
                    "4_billing", "check_prices", "competitor_analysis",
                    "backlink_monitor", "keyword_tracker", "client_management",
                    "team_dashboard", "white_label_reports", "scheduled_scans",
                    "custom_ai_training", "advanced_analytics", "api_management",
                    "custom_integrations"}]]

ADMIN_EMAILS ==
    {Text("moroccoboy1990@gmail.com", {}), Text("admin@nexusseo.com", {})}

ADMIN_ONLY_PAGES ==
    {"quick_test", "debug_secrets", "debug_stripe", "diagnostic_tool", "secrets_test"}

\* A wrong comparison: the address is looked up as written.
is_admin_case_sensitive(user_email) ==
    IF user_email.none \/ user_email.base = "" THEN FALSE
    ELSE user_email \in ADMIN_EMAILS

\* is_admin: user_email.lower() in [email.lower() for email in ADMIN_EMAILS]
is_admin(user_email) ==
    IF user_email.none \/ user_email.base = "" THEN FALSE
    ELSE lower(user_email) \in {lower(email) : email \in ADMIN_EMAILS}

\* can_access_page
can_access_page(user_email, user_tier, page_name) ==
    IF is_admin(user_email) THEN TRUE
    ELSE IF page_name \in ADMIN_ONLY_PAGES THEN FALSE
    ELSE LET tier_config == IF user_tier \in DOMAIN TIER_FEATURES
                            THEN TIER_FEATURES[user_tier]
                            ELSE TIER_FEATURES["demo"]
         IN  page_name \in tier_config.pages_access

\* Addresses: the two administrators' and a customer's, in every mix of
\* cases of their first letters, the empty str and None.
EmailValues ==
    {NoneText}
    \cup {Text(base, upper) :
             base \in {"moroccoboy1990@gmail.com", "admin@nexusseo.com",
                       "user@example.com", ""},
             upper \in SUBSET (1..MaxUpperPositions)}

\* Tiers as stored, with two that TIER_FEATURES does not know.
TierValues == DOMAIN TIER_FEATURES \cup {"free", "PRO"}

PageValues ==
    TIER_FEATURES["elite"].pages_access \cup ADMIN_ONLY_PAGES \cup {"unknown_page"}

CanAccessPage ==
    /\ ~access.called
    /\ access' = [access EXCEPT !.called = TRUE,
                     !.result = can_access_page(access.user_email, access.user_tier,
                                                access.page_name)]
    /\ UNCHANGED <<score_vars, profiles, scan_vars, credit_vars, billing_vars,
                   session, sqlite_db>>

RbacNext == CanAccessPage

\* check_feature_access: feature_mapping
feature_mapping ==
    [competitor_analysis |-> {"pro", "agency", "elite"},
     backlink_monitor    |-> {"pro", "agency", "elite"},
     keyword_tracking    |-> {"pro", "agency", "elite"},
     white_label         |-> {"agency", "elite"},
     team_collaboration  |-> {"agency", "elite"},
     custom_ai           |-> {"elite"},
     unlimited_scans     |-> {"elite"},
     api_access          |-> {"pro", "agency", "elite"},
     pdf_export          |-> {"pro", "agency", "elite"},
     scheduled_scans     |-> {"agency", "elite"},
     custom_integrations |-> {"elite"}]

\* check_feature_access: feature_mapping.get(feature_name, [])
check_feature_access(user_tier, feature_name) ==
    LET allowed_tiers == IF feature_name \in DOMAIN feature_mapping
                         THEN feature_mapping[feature_name] ELSE {}
    IN  user_tier \in allowed_tiers

\* feature_gate: required_tiers
required_tiers ==
    [competitor_analysis |-> "pro", backlink_monitor |-> "pro",
     keyword_tracking |-> "pro", white_label |-> "agency",
     team_collaboration |-> "agency", custom_ai |-> "elite",
     unlimited_scans |-> "elite"]

\* show_upgrade_prompt: 'This feature requires <name> plan or higher', the
\* plan name read from TIER_FEATURES[required_tier]['name']
show_upgrade_prompt(required_tier) == TIER_FEATURES[required_tier].name

\* feature_gate: the access it returns and the plan its prompt names, "" when
\* no prompt is shown
feature_gate(feature_name, user_tier, show_upgrade) ==
    LET has_access    == check_feature_access(user_tier, feature_name)
        required_tier == IF feature_name \in DOMAIN required_tiers
                         THEN required_tiers[feature_name] ELSE "pro"
    IN  [has_access |-> has_access,
         prompt |-> IF ~has_access /\ show_upgrade
                    THEN show_upgrade_prompt(required_tier) ELSE ""]

\* Feature names: those of feature_mapping and one it does not know.
FeatureValues == DOMAIN feature_mapping \cup {"unknown_feature"}

FeatureGate ==
    /\ ~access.called
    /\ LET gate == feature_gate(access.feature_name, access.user_tier,
                                access.show_upgrade)
       IN  access' = [access EXCEPT !.called = TRUE, !.has_access = gate.has_access,
                                    !.prompt = gate.prompt]
    /\ UNCHANGED <<score_vars, profiles, scan_vars, credit_vars, billing_vars,
                   session, sqlite_db>>

GateNext == FeatureGate

(***************************************************************************)
(* State outside Supabase before anything has run.                         *)
(***************************************************************************)

\* st.session_state before the first script run
NoSession == [user |-> "None"]

\* no can_access_page call made
NoAccess == [called |-> FALSE]

\* nexus_seo.db with the one user's row and no subscription
EmptyDb == [users |-> [stripe_customer_id |-> ""], subscriptions |-> << >>]

(***************************************************************************)
(* Initial states.  Each specification starts its own tables from values   *)
(* the program can hold and leaves the other components idle.              *)
(***************************************************************************)
DemoProfile ==
    [exists |-> TRUE, tier |-> "demo", monthly_scan_limit |-> DemoScanLimit,
     monthly_scans_used |-> 0, credits_balance |-> 0,
     stripe_customer_id |-> "", subscription_status |-> ""]

ScoreIdle ==
    /\ page = (CHOOSE pg \in ScannedPages : TRUE)
    /\ scores = NoScores
    /\ issues = NoIssues
    /\ smart_scan = NoSmartScan

ScanIdle == scans = << >> /\ scan_calls = [c \in ScanCallIds |-> IdleCall]

CreditIdle ==
    /\ credit_transactions = << >>
    /\ ai_usage = {}
    /\ ai_calls = [c \in CreditCallIds |-> IdleAICall]

BillingIdle ==
    /\ subscriptions = << >>
    /\ stripe_events = [e \in EventIds |-> NoRow]
    /\ payments = {}
    /\ delivery = IdleDelivery
    /\ delivered = 0

LocalIdle ==
    /\ session = NoSession
    /\ access = NoAccess
    /\ sqlite_db = EmptyDb

(***************************************************************************)
(* scan_url calls of one user, interleaved.                                *)
(***************************************************************************)
\* The rows of 'scans' left by the u scans the user completed earlier in
\* the month, each counted once in monthly_scans_used.
EarlierScans(u) ==
    [i \in 1..u |->
        LET pg == CHOOSE p \in ScannedPages : p.technical.http_status = 200
        IN  [status |-> "completed", error_message |-> "",
             scores |-> calculate_scores(pg.metadata, pg.technical, pg.content,
                                         pg.images),
             call |-> 0]]

Init ==
    /\ ScoreIdle
    /\ \/ profiles = NoRow /\ scans = << >>
       \/ \E u \in 0..DemoScanLimit :
             /\ profiles = [DemoProfile EXCEPT !.monthly_scans_used = u]
             /\ scans = EarlierScans(u)
    /\ scan_calls = [c \in ScanCallIds |-> IdleCall]
    /\ CreditIdle
    /\ BillingIdle
    /\ LocalIdle

Next ==
    \E c \in ScanCallIds :
        \/ NormalizeUrl(c)
        \/ CheckScanLimits(c)
        \/ CreateScanRecord(c)
        \/ UpdateScanStatus(c)
        \/ FetchPage(c)
        \/ MarkFetchFailed(c)
        \/ Analyze(c)
        \/ UpdateScanRecord(c)
        \/ IncrementRead(c)
        \/ IncrementWrite(c)
        \/ ReturnScanId(c)
        \/ MarkScanFailed(c)

Spec == Init /\ [][Next]_vars

(***************************************************************************)
(* _calculate_scores on its own, over every page of Pages.                 *)
(***************************************************************************)
CalculateScores ==
    /\ ~scores.computed
    /\ scores' = calculate_scores(page.metadata, page.technical, page.content,
                                  page.images)
    /\ UNCHANGED <<page, issues, smart_scan, profiles, scan_vars, credit_vars, billing_vars,
                   local_vars>>

ScoreInit ==
    /\ page \in Pages
    /\ scores = NoScores
    /\ issues = NoIssues
    /\ smart_scan = NoSmartScan
    /\ profiles = NoRow
    /\ ScanIdle
    /\ CreditIdle
    /\ BillingIdle
    /\ LocalIdle

ScoreNext == CalculateScores

ScoreSpec == ScoreInit /\ [][ScoreNext]_vars

(***************************************************************************)
(* AIService and _grant_credits calls of one user, interleaved.            *)
(***************************************************************************)
CreditInit ==
    /\ ScoreIdle
    /\ profiles \in {[DemoProfile EXCEPT !.credits_balance = b] : b \in InitialBalances}
    /\ ScanIdle
    /\ CreditIdle
    /\ BillingIdle
    /\ LocalIdle

CreditSpec == CreditInit /\ [][CreditNext]_vars

(***************************************************************************)
(* Webhook deliveries for the one user, to any of the three receivers.     *)
(***************************************************************************)
BillingInit ==
    /\ ScoreIdle
    /\ profiles \in {[DemoProfile EXCEPT !.stripe_customer_id = cid] : cid \in {"", "cus_1"}}
    /\ ScanIdle
    /\ CreditIdle
    /\ BillingIdle
    /\ LocalIdle

BillingSpec == BillingInit /\ [][BillingNext]_vars

(***************************************************************************)
(* Properties of _calculate_scores, checked under ScoreSpec.               *)
(***************************************************************************)

\* C1: each of the five values _calculate_scores returns is an integer in
\* the range 0..100, for every combination of inputs.
ScoresInRange ==
    scores.computed =>
        /\ scores.technical_score \in 0..100
        /\ scores.content_score \in 0..100
        /\ scores.performance_score \in 0..100
        /\ scores.accessibility_score \in 0..100
        /\ scores.overall_score \in 0..100

\* The page with every deduction applied and the page with none are scored.
ExtremePagesScored ==
    /\ scores.computed
    /\ \/ /\ scores.technical_score = 20
          /\ scores.content_score = 10
          /\ scores.performance_score = 20
          /\ scores.accessibility_score = 40
          /\ scores.overall_score = 18
       \/ /\ scores.technical_score = 100
          /\ scores.content_score = 100
          /\ scores.performance_score = 100
          /\ scores.accessibility_score = 100
          /\ scores.overall_score = 100

\* C6: the overall score equals floor((35*T + 35*C + 20*P + 10*A) / 100) of
\* the four category scores returned alongside it.
OverallIsExactWeightedAverage ==
    scores.computed =>
        scores.overall_score =
            (35 * scores.technical_score + 35 * scores.content_score
             + 20 * scores.performance_score + 10 * scores.accessibility_score)
            \div 100

\* [cond] of the claim: 1 when the condition holds, 0 otherwise.
Indicator(cond) == IF cond THEN 1 ELSE 0

\* C7: technical_score = max(0, 100 - 30*[not has_ssl] - 25*[status # 200]
\* - 15*[load_time_ms > 3000] - 10*[not mobile friendly]) and content_score =
\* max(0, 100 - 25*[no title] - 20*[no meta description] - (20 if no H1, else
\* 10 if more than one H1) - 25*[word_count < 300]).
TechnicalAndContentFormulas ==
    scores.computed =>
        /\ scores.technical_score =
              Max(0, 100 - 30 * Indicator(~page.technical.has_ssl)
                         - 25 * Indicator(page.technical.http_status # 200)
                         - 15 * Indicator(page.technical.load_time_ms > 3000)
                         - 10 * Indicator(~page.technical.is_mobile_friendly))
        /\ scores.content_score =
              Max(0, 100 - 25 * Indicator(page.metadata.title \in {NoneStr, Str(0)})
                         - 20 * Indicator(page.metadata.meta_description
                                             \in {NoneStr, Str(0)})
                         - (IF page.metadata.h1_tags = 0 THEN 20
                            ELSE IF page.metadata.h1_tags > 1 THEN 10 ELSE 0)
                         - 25 * Indicator(page.content.word_count < 300))

\* A page on the boundaries is scored: load time exactly 3000 ms, two H1
\* tags, an empty title and exactly 300 words.
BoundaryPageScored ==
    /\ scores.computed
    /\ page.technical.load_time_ms = 3000
    /\ page.metadata.h1_tags = 2
    /\ page.metadata.title = Str(0)
    /\ page.content.word_count = 300
    /\ scores.content_score <= 65

(***************************************************************************)
(* Properties of the credit balance, checked under CreditSpec.             *)
(***************************************************************************)

\* C2: credits_balance is never negative under any interleaving of
\* deduct_credits and _grant_credits steps, and a deduct_credits call whose
\* amount exceeds the balance it read writes nothing and returns False.
CreditsNeverNegative ==
    /\ profiles.credits_balance >= 0
    /\ \A c \in CreditCallIds :
          LET call == ai_calls[c]
          IN  (/\ call.kind \in AIOperations \cup {"deduct"}
               /\ call.current_balance < call.amount)
              => /\ call.updates = 0
                 /\ call.inserts = 0
                 /\ call.pc \notin {"deduct_update", "deduct_insert"}
                 /\ call.deducted \in {"", "False"}
                 /\ (call.kind = "deduct" /\ call.pc = "done") => call.result = "False"

\* A deduct_credits call read a positive balance smaller than its amount,
\* after another call had lowered the balance, and returned False.
DeductRefusedAfterRead ==
    \E c \in CreditCallIds, d \in CreditCallIds :
        /\ ai_calls[d].kind \in AIOperations \cup {"deduct"}
        /\ ai_calls[d].updates > 0
        /\ ai_calls[c].kind = "deduct"
        /\ ai_calls[c].pc = "done"
        /\ ai_calls[c].current_balance > 0
        /\ ai_calls[c].current_balance < ai_calls[c].amount
        /\ ai_calls[c].result = "False"

\* C3: a generate_* call that returns a result leaves credits_balance exactly
\* CREDIT_COSTS[operation] lower than before the call (stated for a call that
\* runs with no other call on the same user).
ResultCostsCredits ==
    \A c \in CreditCallIds :
        (/\ ai_calls[c].kind \in AIOperations
         /\ ai_calls[c].result = "result"
         /\ \A d \in CreditCallIds \ {c} : ai_calls[d].pc = "idle")
        => profiles.credits_balance =
              ai_calls[c].start_balance - CREDIT_COSTS[ai_calls[c].kind]

(***************************************************************************)
(* Properties of scan_url, checked under Spec.                             *)
(***************************************************************************)

\* The row a call inserted.
RowOf(c) == scans[scan_calls[c].scan_id]

\* C4: once a scan record exists and the fetch yields no content or the
\* analysis raises, scan_url returns None, the row ends 'failed' with a
\* non-empty error_message, the fetch is not retried and monthly_scans_used
\* is not changed by the call.
FailingScanAborted ==
    \A c \in ScanCallIds :
        (Returned(c) /\ scan_calls[c].cause \in {"no_content", "analysis"})
        => /\ scan_calls[c].result = "None"
           /\ RowOf(c).status = "failed"
           /\ RowOf(c).error_message # ""
           /\ scan_calls[c].fetches = 1
           /\ scan_calls[c].counter_writes = 0

\* C5: no exception propagates out of scan_url, whichever external call
\* fails; the call returns its scan id or None.
NoExceptionPropagates ==
    \A c \in ScanCallIds : scan_calls[c].result \in {"running", "scan_id", "None"}

\* Status changes the claim allows for a row.
AllowedStatusChange(old, new) ==
    \/ old = new
    \/ old = "pending" /\ new \in {"processing", "failed"}
    \/ old = "processing" /\ new \in {"completed", "failed"}

\* One call inserts at most one row, and none unless the limit check passed.
OneRowPerCall ==
    \A c \in ScanCallIds :
        /\ Cardinality({i \in 1..Len(scans) : scans[i].call = c}) <= 1
        /\ Cardinality({i \in 1..Len(scans) : scans[i].call = c}) = scan_calls[c].inserts
        /\ scan_calls[c].inserts > 0
              => scan_calls[c].lookup = "row" /\ scan_calls[c].used < scan_calls[c].limit

\* Rows are never removed, a new row is 'pending', and an existing row only
\* makes an allowed status change.
RowsUpdatedInPlace ==
    /\ Len(scans') >= Len(scans)
    /\ \A i \in 1..Len(scans) :
          /\ scans'[i].call = scans[i].call
          /\ AllowedStatusChange(scans[i].status, scans'[i].status)
    /\ \A i \in (Len(scans) + 1)..Len(scans') : scans'[i].status = "pending"

\* C8: a scan_url call inserts at most one row (none when the URL is invalid
\* or the limit check fails); the row's status only moves pending ->
\* processing -> completed or pending/processing -> failed, and a completed or
\* failed row keeps its status.
ScanRowsCreateOnce == []OneRowPerCall /\ [][RowsUpdatedInPlace]_vars

\* Both calls are over: one row completed with its counter written after a
\* successful scan, the other failed from 'processing'.
CompletedAndFailedRows ==
    \E c \in ScanCallIds, d \in ScanCallIds :
        /\ scan_calls[c].result = "scan_id"
        /\ RowOf(c).status = "completed"
        /\ scan_calls[d].result = "None"
        /\ scan_calls[d].fetches = 1
        /\ RowOf(d).status = "failed"

\* C9: when the profile lookup raises, the profile is missing, or
\* monthly_scans_used >= monthly_scan_limit, scan_url returns None without
\* inserting a row, fetching the page or changing monthly_scans_used.
OverQuotaScanRefused ==
    \A c \in ScanCallIds :
        LET call == scan_calls[c]
        IN  (\/ call.lookup \in {"raised", "missing"}
             \/ call.lookup = "row" /\ call.used >= call.limit)
            => /\ call.pc = "done"
               /\ call.result = "None"
               /\ call.inserts = 0
               /\ call.fetches = 0
               /\ call.counter_writes = 0

\* A call was refused because an earlier scan had used up the quota.
RefusedAtLimit ==
    \E c \in ScanCallIds, d \in ScanCallIds :
        /\ scan_calls[d].counter_writes = 1
        /\ scan_calls[c].lookup = "row"
        /\ scan_calls[c].used = scan_calls[c].limit
        /\ scan_calls[c].result = "None"

(***************************************************************************)
(* Properties of the webhook handlers, checked under BillingSpec.          *)
(***************************************************************************)

\* The tiers TIER_FEATURES and PLANS are defined for.
Tiers == {"demo", "pro", "agency", "elite"}

\* C10: every value a billing or webhook handler writes to a profile's
\* 'tier' field is one of demo, pro, agency, elite.
TierAlwaysKnown == profiles.exists => profiles.tier \in Tiers

\* C11: the effects of one event id (subscription row insert, credit grant)
\* are applied at most once, however many times the event is delivered to
\* process_webhook_event.
EventEffectsAtMostOnce ==
    \A e \in EventIds :
        /\ Cardinality({i \in DOMAIN subscriptions : subscriptions[i].event = e}) <= 1
        /\ Cardinality({i \in DOMAIN credit_transactions :
                           credit_transactions[i].event = e}) <= 1

(***************************************************************************)
(* One browser session that starts on the login page.                      *)
(***************************************************************************)
DemoInit ==
    /\ ScoreIdle
    /\ profiles \in {NoRow, DemoProfile}
    /\ ScanIdle
    /\ CreditIdle
    /\ BillingIdle
    /\ session = FreshSession
    /\ access = NoAccess
    /\ sqlite_db = EmptyDb

DemoSpec == DemoInit /\ [][DemoNext]_vars

\* C12: in one demo session at most 2 scans are performed, and once 2 scans
\* have been performed the dashboard shows 'No scans remaining' instead of
\* the Start Scan button.
DemoScansAtMostTwo ==
    session.user = "demo_user"
    => /\ session.scans_done <= 2
       /\ (session.view = "demo_dashboard" /\ session.scans_done >= 2)
             => session.shows = "no_scans"

(***************************************************************************)
(* can_access_page on its own, over every (email, tier, page).             *)
(***************************************************************************)
RbacInit ==
    /\ ScoreIdle
    /\ profiles = NoRow
    /\ ScanIdle
    /\ CreditIdle
    /\ BillingIdle
    /\ session = NoSession
    /\ access \in [called : {FALSE}, result : {FALSE}, user_email : EmailValues,
                    user_tier : TierValues, page_name : PageValues]
    /\ sqlite_db = EmptyDb

RbacSpec == RbacInit /\ [][RbacNext]_vars

\* The address is an administrator's when case is ignored.
AdminIgnoringCase(email) ==
    /\ ~email.none
    /\ \E admin \in ADMIN_EMAILS : admin.base = email.base

\* C13: an administrator's address (in any case) can access every page; a
\* non-admin can never access an admin-only page; otherwise access is granted
\* exactly when the page is in the tier's pages_access, an unknown tier
\* counting as demo.
AccessAsSpecified ==
    access.called =>
        access.result =
            IF AdminIgnoringCase(access.user_email) THEN TRUE
            ELSE IF access.page_name \in ADMIN_ONLY_PAGES THEN FALSE
            ELSE IF access.user_tier \in {"demo", "pro", "agency", "elite"}
            THEN access.page_name \in TIER_FEATURES[access.user_tier].pages_access
            ELSE access.page_name \in TIER_FEATURES["demo"].pages_access

\* An administrator's address written with capitals was granted an
\* admin-only page.
AdminInCapitalsGranted ==
    /\ access.called
    /\ access.user_email.base = "admin@nexusseo.com"
    /\ access.user_email.upper # {}
    /\ access.page_name = "debug_stripe"
    /\ access.result

\* StripeService is handling, or has handled, customer.subscription.deleted.
DeletedByService(d) ==
    /\ d.server = "service"
    /\ d.event # ""
    /\ EventCatalogue[d.event].type = "customer.subscription.deleted"

CanceledAndDowngraded ==
    (DeletedByService(delivery) /\ delivery.pc = "done" /\ delivery.result = "handled")
    => /\ \A i \in DOMAIN subscriptions : subscriptions[i].status = "canceled"
       /\ profiles.exists => /\ profiles.tier = "demo"
                              /\ profiles.monthly_scan_limit = 2

CreditsKeptWhileCanceling ==
    (DeletedByService(delivery) /\ delivery.pc \notin {"idle", "done"})
    => profiles'.credits_balance = profiles.credits_balance

\* C14: once StripeService.process_webhook_event has handled
\* customer.subscription.deleted, the subscription row has status 'canceled'
\* and the owning profile has tier 'demo' and monthly_scan_limit 2; no step
\* of that handling changes the profile's credits_balance.
CancellationDowngradesToDemo ==
    []CanceledAndDowngraded /\ [][CreditsKeptWhileCanceling]_vars

\* A paid subscription with credits on the profile was canceled.
PaidSubscriptionCanceled ==
    /\ DeletedByService(delivery)
    /\ delivery.pc = "done"
    /\ delivery.result = "handled"
    /\ Len(subscriptions) = 1
    /\ subscriptions[1].tier = "pro"
    /\ profiles.exists
    /\ profiles.credits_balance > 0

\* A request that failed verification is finished at once, with None from
\* verify_webhook_signature and status 400 from the HTTP handlers.
UnverifiedAnswered ==
    (delivery.pc # "idle" /\ ~delivery.verified)
    => /\ delivery.pc = "done"
       /\ delivery.result = IF delivery.server = "service" THEN "None" ELSE "400"

\* The step that receives such a request writes no table.
UnverifiedWritesNothing ==
    (delivered' # delivered /\ ~delivery'.verified)
    => UNCHANGED <<profiles, subscriptions, credit_transactions, sqlite_db,
                   stripe_events, payments>>

\* C15: a webhook whose payload or signature fails verification changes
\* nothing: verify_webhook_signature returns None, the HTTP handlers answer
\* 400, no handler is dispatched and no row of profiles, subscriptions, users
\* or credit_transactions is written for that request.
BadSignatureChangesNothing ==
    []UnverifiedAnswered /\ [][UnverifiedWritesNothing]_vars

\* A request with a bad signature reached handle_webhook while the SQLite
\* database already held a customer.
BadSignatureRefusedByHandler ==
    /\ delivery.pc = "done"
    /\ delivery.server = "handler"
    /\ ~delivery.verified
    /\ delivery.result = "400"
    /\ sqlite_db.users.stripe_customer_id = "cus"

\* No other scan_url call has started.
OnlyCall(c) == \A d \in ScanCallIds \ {c} : scan_calls[d].pc = "idle"

\* C16: a scan_url call that returned a scan id has increased
\* monthly_scans_used by exactly 1 (seen on the profile when no other call
\* ran: the value read by the limit check plus one), and a call that returned
\* None has not written the counter.
CounterCountsCompletedScans ==
    \A c \in ScanCallIds :
        /\ scan_calls[c].result = "scan_id"
              => /\ scan_calls[c].counter_writes = 1
                 /\ OnlyCall(c) =>
                       profiles.monthly_scans_used = scan_calls[c].used + 1
        /\ scan_calls[c].result = "None"
              => /\ scan_calls[c].counter_writes = 0
                 /\ (OnlyCall(c) /\ scan_calls[c].lookup = "row") =>
                       profiles.monthly_scans_used = scan_calls[c].used

CompletedRows == {i \in DOMAIN scans : scans[i].status = "completed"}

\* C17: in every interleaving of scan_url calls for one user, the number of
\* scans completed since the counter was last reset and monthly_scans_used
\* never exceed monthly_scan_limit.
QuotaHoldsUnderInterleaving ==
    profiles.exists
    => /\ Cardinality(CompletedRows) <= profiles.monthly_scan_limit
       /\ profiles.monthly_scans_used <= profiles.monthly_scan_limit

\* No other credit call has started.
OnlyAICall(c) == \A d \in CreditCallIds \ {c} : ai_calls[d].pc = "idle"

\* C18: a generate_* call that returned None has not changed credits_balance
\* and has inserted no credit_transactions row; a call whose credit check
\* found less than the cost has not called the model.
NothingDeliveredNothingCharged ==
    \A c \in CreditCallIds :
        (ai_calls[c].kind \in AIOperations /\ ai_calls[c].pc = "done")
        => /\ ai_calls[c].result = "None"
                => /\ ai_calls[c].updates = 0
                   /\ ai_calls[c].inserts = 0
                   /\ \A i \in DOMAIN credit_transactions :
                          credit_transactions[i].call # c
                   /\ OnlyAICall(c) =>
                          profiles.credits_balance = ai_calls[c].start_balance
           /\ ai_calls[c].start_balance < CREDIT_COSTS[ai_calls[c].kind]
                => ai_calls[c].result = "None" /\ ~ai_calls[c].generated

\* With enough credits the model was called, it raised, and the call
\* returned None.
ModelFailedAfterCheck ==
    \E c \in CreditCallIds :
        /\ ai_calls[c].kind = "seo_audit"
        /\ ai_calls[c].result = "None"
        /\ ai_calls[c].generated
        /\ ai_calls[c].start_balance >= CREDIT_COSTS.seo_audit
        /\ profiles.credits_balance = ai_calls[c].start_balance

\* The credit_transactions rows inserted by call c.
RowsOfCall(c) ==
    {i \in DOMAIN credit_transactions : credit_transactions[i].call = c}

\* C19: deduct_credits is all-or-nothing.  It returned True exactly when it
\* wrote credits_balance = balance - amount and inserted one row with
\* amount = -amount and balance_after = the new balance; when it returned
\* False it wrote neither credits_balance nor credit_transactions.
DeductAllOrNothing ==
    \A c \in CreditCallIds :
        /\ ai_calls[c].deducted = "True"
              => /\ ai_calls[c].updates = 1
                 /\ ai_calls[c].new_balance = ai_calls[c].current_balance - ai_calls[c].amount
                 /\ Cardinality(RowsOfCall(c)) = 1
                 /\ \A i \in RowsOfCall(c) :
                       /\ credit_transactions[i].amount = 0 - ai_calls[c].amount
                       /\ credit_transactions[i].balance_after = ai_calls[c].new_balance
        /\ ai_calls[c].deducted = "False"
              => /\ ai_calls[c].updates = 0
                 /\ RowsOfCall(c) = {}
                 /\ OnlyAICall(c) =>
                       profiles.credits_balance = ai_calls[c].start_balance

RECURSIVE SumOfAmounts(_)
SumOfAmounts(rows) ==
    IF rows = << >> THEN 0 ELSE Head(rows).amount + SumOfAmounts(Tail(rows))

\* Every call made so far was deduct_credits returning True or _grant_credits
\* returning normally, and at least one was made.
AllCompletedWithoutError ==
    /\ \A c \in CreditCallIds :
          \/ ai_calls[c].pc = "idle"
          \/ ai_calls[c].kind = "deduct" /\ ai_calls[c].result = "True"
          \/ ai_calls[c].kind = "grant" /\ ai_calls[c].result = "returned"
    /\ \E c \in CreditCallIds : ai_calls[c].pc # "idle"

\* C20: after deduct_credits and _grant_credits calls that completed without
\* error, in every interleaving of their steps, credits_balance equals the
\* initial balance plus the sum of the amounts of the inserted
\* credit_transactions rows, and equals balance_after of the latest row.
\* The initial balance is the one read by the call that started first.
LedgerMatchesBalance ==
    AllCompletedWithoutError
    => /\ \E c \in CreditCallIds :
             /\ ai_calls[c].pc # "idle"
             /\ profiles.credits_balance =
                   ai_calls[c].start_balance + SumOfAmounts(credit_transactions)
       /\ profiles.credits_balance =
             credit_transactions[Len(credit_transactions)].balance_after

(***************************************************************************)
(* feature_gate on its own, over every (feature, tier, show_upgrade).      *)
(***************************************************************************)
GateInit ==
    /\ ScoreIdle
    /\ profiles = NoRow
    /\ ScanIdle
    /\ CreditIdle
    /\ BillingIdle
    /\ session = NoSession
    /\ access \in [called : {FALSE}, has_access : {FALSE}, prompt : {""},
                    feature_name : FeatureValues, user_tier : TierValues,
                    show_upgrade : BOOLEAN]
    /\ sqlite_db = EmptyDb

GateSpec == GateInit /\ [][GateNext]_vars

\* C21: for every feature of check_feature_access's mapping and every user
\* tier, when feature_gate denies access and shows 'This feature requires
\* <R> plan or higher', check_feature_access(R, feature) is True for the
\* tier R whose plan it names.
PromptNamesUnlockingTier ==
    (/\ access.called
     /\ access.feature_name \in DOMAIN feature_mapping
     /\ ~access.has_access
     /\ access.prompt # "")
    => \A R \in DOMAIN TIER_FEATURES :
          TIER_FEATURES[R].name = access.prompt
          => check_feature_access(R, access.feature_name)

(***************************************************************************)
(* The Advanced Scanner's analysis for every value of user_plan.           *)
(***************************************************************************)
ScannerInit ==
    /\ ScoreIdle
    /\ profiles = NoRow
    /\ ScanIdle
    /\ CreditIdle
    /\ BillingIdle
    /\ session \in {ScannerStart(user_plan) : user_plan \in PlanValues}
    /\ access = NoAccess
    /\ sqlite_db = EmptyDb

ScannerSpec == ScannerInit /\ [][ScannerNext]_vars

\* C22: agent 1 runs for every plan, agent 2 only for pro and above, agent 3
\* only for agency and above, agent 4 only for elite, an unknown plan counting
\* as demo; and the exported report's content_analysis, competitive_analysis
\* and strategic_plan are {} for every plan below the respective threshold.
AgentsGatedByPlan ==
    /\ session.pc # "agent1" => 1 \in session.ran
    /\ 2 \in session.ran => session.user_plan \in {"pro", "agency", "elite"}
    /\ 3 \in session.ran => session.user_plan \in {"agency", "elite"}
    /\ 4 \in session.ran => session.user_plan = "elite"
    /\ session.pc = "done"
          => /\ session.user_plan \notin {"pro", "agency", "elite"}
                   => session.report.content_analysis = "empty"
             /\ session.user_plan \notin {"agency", "elite"}
                   => session.report.competitive_analysis = "empty"
             /\ session.user_plan # "elite"
                   => session.report.strategic_plan = "empty"

\* A Pro scan ran agents 1 and 2 only and exported the content analysis
\* without the competitive one.
ProReportExported ==
    /\ session.pc = "done"
    /\ session.user_plan = "pro"
    /\ session.ran = {1, 2}
    /\ session.comp_analysis = "locked"
    /\ session.report.content_analysis = "result"
    /\ session.report.competitive_analysis = "empty"

\* The deduction of the claim's tier table for a load time or a page size.
TierDeduction(value, high, mid, low) ==
    IF value > high[1] THEN high[2]
    ELSE IF value > mid[1] THEN mid[2]
    ELSE IF value > low[1] THEN low[2] ELSE 0

PerformanceAndAccessibilityFormulas ==
    /\ scores.performance_score =
          100 - TierDeduction(page.technical.load_time_ms,
                              <<5000, 50>>, <<3000, 30>>, <<1000, 15>>)
              - TierDeduction(page.technical.page_size_kb,
                              <<3000, 30>>, <<2000, 20>>, <<1000, 10>>)
    /\ scores.accessibility_score =
          100 - Min(40, 5 * page.images.images_without_alt)
              - 20 * Indicator(page.metadata.h1_tags = 0)

\* A slower page, a larger page or more images without alt text never
\* score higher than the page scored.
ScoresNonIncreasing ==
    /\ \A load_time \in LoadTimes :
          load_time >= page.technical.load_time_ms
          => performance_score([page.technical EXCEPT !.load_time_ms = load_time])
                <= scores.performance_score
    /\ \A page_size \in PageSizes :
          page_size >= page.technical.page_size_kb
          => performance_score([page.technical EXCEPT !.page_size_kb = page_size])
                <= scores.performance_score
    /\ \A n \in 0..MaxImagesWithoutAlt :
          n >= page.images.images_without_alt
          => accessibility_score(page.metadata, [images_without_alt |-> n])
                <= scores.accessibility_score

\* C24: performance_score = 100 - (50 if load_time_ms > 5000, else 30 if
\* > 3000, else 15 if > 1000) - (30 if page_size_kb > 3000, else 20 if > 2000,
\* else 10 if > 1000); accessibility_score = 100 - min(40, 5 *
\* images_without_alt) - (20 if there is no H1); both are non-increasing in
\* load_time_ms, page_size_kb and images_without_alt.
TieredDeductions ==
    scores.computed => PerformanceAndAccessibilityFormulas /\ ScoresNonIncreasing

\* The slowest, largest page with the most images without alt text and no
\* H1 was scored: each score is at its lowest.
WorstPageScored ==
    /\ scores.computed
    /\ page.technical.load_time_ms = 5001
    /\ page.technical.page_size_kb = 3001
    /\ page.images.images_without_alt = MaxImagesWithoutAlt
    /\ page.metadata.h1_tags = 0
    /\ scores.performance_score = 20
    /\ scores.accessibility_score = 40

(***************************************************************************)
(* _identify_issues on its own, over every page of IssuePages.             *)
(***************************************************************************)
IssueInit ==
    /\ page \in IssuePages
    /\ scores = NoScores
    /\ issues = NoIssues
    /\ smart_scan = NoSmartScan
    /\ profiles = NoRow
    /\ ScanIdle
    /\ CreditIdle
    /\ BillingIdle
    /\ LocalIdle

IssueSpec == IssueInit /\ [][IssueNext]_vars

\* The messages of a list, in no order.
Messages(list) == {list[i] : i \in DOMAIN list}

\* The messages the claim's rule table puts in a bucket: the rules that hold.
Bucket(rules) == {rule[2] : rule \in {r \in rules : r[1]}}

\* C23: critical = {missing title, no HTTPS, http_status != 200}; high =
\* {missing meta description, no H1 or more than one H1 (one entry),
\* word_count < 300}; medium = {title longer than 60 chars, meta description
\* longer than 160 chars, load_time_ms > 3000, page_size_kb > 2000}; low =
\* {images_without_alt > 0, no viewport}; and each reported count equals the
\* length of the corresponding list of issues_detail.
IssuesBucketedBySeverity ==
    issues.identified =>
        LET title == page.metadata.title
            desc  == page.metadata.meta_description
            tech  == page.technical
            d     == issues.issues_detail
        IN  /\ Messages(d.critical) =
                  Bucket({<<title \in {NoneStr, Str(0)}, "Missing page title">>,
                          <<~tech.has_ssl, "No HTTPS encryption">>,
                          <<tech.http_status # 200, "HTTP status">>})
            /\ Messages(d.high) =
                  Bucket({<<desc \in {NoneStr, Str(0)}, "Missing meta description">>,
                          <<page.metadata.h1_tags = 0, "No H1 heading found">>,
                          <<page.metadata.h1_tags > 1, "Multiple H1 tags">>,
                          <<page.content.word_count < 300,
                            "Thin content (< 300 words)">>})
            /\ Messages(d.medium) =
                  Bucket({<<~title.none /\ title.len > 60,
                            "Title tag too long (> 60 chars)">>,
                          <<~desc.none /\ desc.len > 160,
                            "Meta description too long (> 160 chars)">>,
                          <<tech.load_time_ms > 3000, "Slow page load">>,
                          <<tech.page_size_kb > 2000, "Large page size">>})
            /\ Messages(d.low) =
                  Bucket({<<page.images.images_without_alt > 0,
                            "images missing alt text">>,
                          <<~tech.is_mobile_friendly, "No viewport meta tag">>})
            /\ issues.issues.critical_issues = Len(d.critical)
            /\ issues.issues.high_issues = Len(d.high)
            /\ issues.issues.medium_issues = Len(d.medium)
            /\ issues.issues.low_issues = Len(d.low)
            /\ Len(d.critical) = Cardinality(Messages(d.critical))
            /\ Len(d.high) = Cardinality(Messages(d.high))
            /\ Len(d.medium) = Cardinality(Messages(d.medium))
            /\ Len(d.low) = Cardinality(Messages(d.low))

\* A page just past every threshold was examined: a title of 61 and a
\* description of 161 characters, two H1 tags, 299 words, no HTTPS.
PagePastThresholdsExamined ==
    /\ issues.identified
    /\ page.metadata.title = Str(61)
    /\ page.metadata.meta_description = Str(161)
    /\ page.metadata.h1_tags = 2
    /\ page.content.word_count = 299
    /\ ~page.technical.has_ssl
    /\ page.technical.load_time_ms = 3001
    /\ page.technical.page_size_kb = 2001
    /\ issues.issues.critical_issues = 1
    /\ issues.issues.high_issues = 2
    /\ issues.issues.medium_issues = 4

(***************************************************************************)
(* scan_website with and without AI, with and without a Gemini model.      *)
(***************************************************************************)
SmartInit ==
    /\ page = (CHOOSE pg \in ScannedPages : TRUE)
    /\ scores = NoScores
    /\ issues = NoIssues
    /\ smart_scan \in {SmartScanStart(url, include_ai, ai_model) :
                          url \in UrlValues, include_ai \in BOOLEAN,
                          ai_model \in BOOLEAN}
    /\ profiles = NoRow
    /\ ScanIdle
    /\ CreditIdle
    /\ BillingIdle
    /\ LocalIdle

SmartSpec == SmartInit /\ [][SmartNext]_vars

\* C25: scan_website never raises on a failed fetch: when scraping fails for
\* any reason it returns exactly {'error': 'Failed to scrape website'} without
\* running any analysis or AI call; when scraping succeeds it returns a result
\* with overall_score, and ai_insights is {} whenever include_ai is False or
\* no Gemini model is configured.
FailedFetchReturnsError ==
    smart_scan.pc = "done" =>
        /\ smart_scan.fetch # "ok"
              => /\ smart_scan.result = [error |-> "Failed to scrape website"]
                 /\ smart_scan.ran = {}
        /\ smart_scan.fetch = "ok"
              => /\ "overall_score" \in DOMAIN smart_scan.result
                 /\ smart_scan.result.url = smart_scan.url
                 /\ (~smart_scan.include_ai \/ ~smart_scan.ai_model)
                       => /\ smart_scan.result.ai_insights = EmptyDict
                          /\ smart_scan.ran = {"technical", "content"}

\* With AI enabled and a model configured, the parsing of the fetched page
\* raised an exception that is not a requests one.
UnexpectedScrapeError ==
    /\ smart_scan.pc = "done"
    /\ smart_scan.include_ai
    /\ smart_scan.ai_model
    /\ smart_scan.fetch = "Exception"
    /\ smart_scan.result = [error |-> "Failed to scrape website"]

====
